---- MODULE Spec2Model ----
(***************************************************************************)
(* AbilityConnect: the treatment-plan generation pipeline                  *)
(* (VoiceRecorder.handleSubmit, TreatmentPlanForm.handleSubmit), the       *)
(* child-record operations of parents and therapists, and the consumers    *)
(* that pick a child's current plan.                                       *)
(*                                                                         *)
(* Every await of the source is a suspension point: an action is the code  *)
(* that runs between two awaits, and the outcome of the awaited call       *)
(* (resolved or rejected, and its value) is the action's input.            *)
(***************************************************************************)
EXTENDS Integers, Sequences, FiniteSets, TLC

\* ---------------------------------------------------------------- bounds
MaxTasks == 2
MaxGoals == 2
MaxPlans == 2
MaxClock == 2
MaxChildren == 2

\* ------------------------------------------------------------ JS values
\* A field that is undefined / not present in the object.
Absent == "absent"

\* JavaScript truthiness of a string field: '' and undefined are falsy.
Falsy(id) == id \in {"", Absent}

SeqsUpTo(S, n) == UNION {[1..k -> S] : k \in 0..n}

\* --------------------------------------------- summarization payloads
\* weeklyGoalIndex values the language model may return.
GoalIndexValues == {0, 7}

\* A weekly goal of the answer.  `tagged` tells the two shapes the type
\* WeeklyGoal[] | string[] allows apart: an object {goal, category}, or a
\* bare string (then there is no category).
WeeklyGoalValues == {[tagged |-> TRUE, goal |-> "g", category |-> "motor"]}

BareGoalValues == {[tagged |-> FALSE, goal |-> "h", category |-> Absent]}

TaskValues ==
    [title : {"t"}, description : {"d"}, whyItMatters : {"w"},
     weeklyGoalIndex : GoalIndexValues]

\* The closed set of therapy types of the prompt.
TherapyTypes == {"speech", "behavior", "emotional", "motor"}

\* therapyType values the language model may return besides "motor": none,
\* or a word outside the list.
OtherTherapyTypeValues == {Absent, "physical"}

\* JSON.parse(content) of a well-formed answer.
ObjectPayloads ==
    [isJSON : {TRUE}, isNull : {FALSE}, hasSummary : {TRUE},
     hasDailyTasks : {TRUE}, therapyType : {"motor"},
     weeklyGoals : SeqsUpTo(WeeklyGoalValues, MaxGoals),
     dailyTasks : SeqsUpTo(TaskValues, MaxTasks)]

\* An answer that parses but has no dailyTasks field.
NoTasksPayloads ==
    [isJSON : {TRUE}, isNull : {FALSE}, hasSummary : {TRUE},
     hasDailyTasks : {FALSE}, therapyType : {"motor"},
     weeklyGoals : SeqsUpTo(WeeklyGoalValues, MaxGoals),
     dailyTasks : {<<>>}]

\* Answers with another therapyType.
TherapyTypePayloads ==
    [isJSON : {TRUE}, isNull : {FALSE}, hasSummary : {TRUE},
     hasDailyTasks : {TRUE}, therapyType : OtherTherapyTypeValues,
     weeklyGoals : {<<>>}, dailyTasks : {<<>>}]

\* Answers whose weeklyGoals are bare strings.
BareGoalPayloads ==
    [isJSON : {TRUE}, isNull : {FALSE}, hasSummary : {TRUE},
     hasDailyTasks : {TRUE}, therapyType : {"motor"},
     weeklyGoals : SeqsUpTo(BareGoalValues, MaxGoals) \ {<<>>},
     dailyTasks : {<<>>}]

\* An answer that parses but has no summary field.
NoSummaryPayloads ==
    [isJSON : {TRUE}, isNull : {FALSE}, hasSummary : {FALSE},
     hasDailyTasks : {TRUE}, therapyType : {"motor"},
     weeklyGoals : {<<>>},
     dailyTasks : {<<>>,
                   <<[title |-> "t", description |-> "d",
                      whyItMatters |-> "w", weeklyGoalIndex |-> 0]>>}]

\* summarizeTreatmentPlan returns null when the answer has no content.
NullPayload ==
    [isJSON |-> TRUE, isNull |-> TRUE, hasSummary |-> FALSE,
     hasDailyTasks |-> FALSE, therapyType |-> Absent, weeklyGoals |-> <<>>,
     dailyTasks |-> <<>>]

\* A content on which JSON.parse throws.
UnparsablePayload ==
    [isJSON |-> FALSE, isNull |-> FALSE, hasSummary |-> FALSE,
     hasDailyTasks |-> FALSE, therapyType |-> Absent, weeklyGoals |-> <<>>,
     dailyTasks |-> <<>>]

\* The answers of the runs of Spec: every combination of goals and tasks.
Payloads ==
    ObjectPayloads \cup NoTasksPayloads \cup {NullPayload, UnparsablePayload}

\* Well-formed answers without daily tasks.
TaggedGoalPayloads == {p \in ObjectPayloads : p.dailyTasks = <<>>}

\* The answers of the runs of SpecFormats: every shape of the fields other
\* than dailyTasks.
FormatPayloads ==
    TaggedGoalPayloads \cup TherapyTypePayloads \cup BareGoalPayloads
        \cup NoSummaryPayloads \cup NoTasksPayloads
        \cup {NullPayload, UnparsablePayload}

\* ------------------------------------------------------------ variables
VARIABLES
    treatmentPlans,   \* the treatmentPlans collection, in commit order
    answer,           \* input: what the language model answers for the
                      \* session's recording (JSON.parse of its content)
    now,              \* the client clock read by new Date()
    form,             \* which component runs the pipeline
    mounted,          \* the component is mounted
    processing,       \* VoiceRecorder.processing / TreatmentPlanForm.loading
    status,           \* the status message
    error,            \* the error message
    audioFile,        \* a recording or an uploaded audio file is selected
    documentFile,     \* a companion document is selected
    pc,               \* the await at which handleSubmit is suspended
    submittedDocument,  \* documentFile as captured by handleSubmit's closure
    summary,          \* handleSubmit's local: the summarization payload
    requests,         \* the per-task generateDemoVideoSuggestion promises
    dailyTasksWithSuggestions,  \* handleSubmit's local
    documentUrl,      \* handleSubmit's local
    addDocData,       \* the document handed to addDoc (<<>> when none)
    failure,          \* history: the call whose rejection ended the run
    plansAtSubmit,    \* history: Len(treatmentPlans) when the run started
    tornDown          \* history: the component was unmounted during the run

\* The state of the component (useState).
componentVars == <<processing, status, error, audioFile, documentFile>>

\* The locals of one handleSubmit call.
localVars ==
    <<submittedDocument, summary, dailyTasksWithSuggestions, documentUrl,
      addDocData>>

pipelineVars ==
    <<treatmentPlans, answer, now, form, mounted, componentVars, pc,
      localVars, requests, failure, plansAtSubmit, tornDown>>

VARIABLES
    children,         \* the children collection, in creation order
    session,          \* per user: the handler suspended between its read
                      \* of the collection and its write
    searchResults     \* per therapist: the Child objects of the last search

childrenVars == <<children, session, searchResults>>

VARIABLES
    selected          \* per consumer: the child it loaded and the document
                      \* it took as that child's current plan

consumerVars == <<selected>>

VARIABLES
    therapySessions,     \* the therapySessions documents of the child, in the
                         \* order of the query snapshot
    currentTherapyType,  \* the therapyType the consumers took from the plan
    progressView,        \* per consumer: the session data it displays
    days,                \* input: the day count of a sample generation
    sample               \* the sessions generateSampleProgressData returned

analyticsVars ==
    <<therapySessions, currentTherapyType, progressView, days, sample>>

VARIABLES
    treatmentPlan,      \* TreatmentPlanView / DailyTasks: the plan shown
                        \* (<<>> for null, else a one-element sequence)
    goalItems,          \* per consumer: the weekly goal items it rendered
    goalTags,           \* DailyTasks: the goal text under each task
    icsContent,         \* downloadICalendar: the lines of the file
    uploadingVideoFor,  \* TreatmentPlanView: <<task id>>, <<>> for null
    uploads             \* per task: the VideoUpload.handleUpload call in
                        \* flight, as the plan its callback closed over

viewVars ==
    <<treatmentPlan, goalItems, goalTags, icsContent, uploadingVideoFor,
      uploads>>

VARIABLES
    selectedChild,    \* per consumer: the id of the selected child
    childrenQuery,    \* per consumer: the state of loadChildren's query
    loads,            \* per consumer and child: the await at which the
                      \* load started for that child is suspended
    shown,            \* per consumer: the child each displayed piece of
                      \* state was loaded for
    loading           \* per consumer: the loading flag

loadVars == <<selectedChild, childrenQuery, loads, shown, loading>>

vars ==
    <<pipelineVars, childrenVars, consumerVars, analyticsVars, viewVars,
      loadVars>>

Forms == {"VoiceRecorder", "TreatmentPlanForm"}

\* The child prop of the component.
child == "c1"

InFlight ==
    {"uploadBytes", "getDownloadURL", "transcribeAudio",
     "summarizeTreatmentPlan", "Promise.all", "docUploadBytes",
     "docGetDownloadURL", "addDoc"}

RunInProgress == pc \in InFlight

\* ------------------------------------------------- users and children
Parents == {"p1", "p2"}
\* t1 works in PatientList, t2 in PatientSearch.
PatientListUsers == {"t1"}
PatientSearchUsers == {"t2"}
Therapists == PatientListUsers \cup PatientSearchUsers
Users == Parents \cup Therapists

Consumers == {"DailyTasks", "TreatmentPlanView", "ProgressDashboard"}

IdleSession == [pc |-> "idle", nationalId |-> "", target |-> 0]

\* No child-record operation is under way.
ChildrenIdle ==
    /\ children = <<>>
    /\ session = [u \in Users |-> IdleSession]
    /\ searchResults = [t \in Therapists |-> <<>>]

\* No consumer has loaded a plan.
ConsumersIdle ==
    selected = [c \in Consumers |-> [childId |-> "", plan |-> 0]]

\* The components that display session data.
ProgressConsumers == {"ProgressDashboard", "TreatmentPlanView"}

\* generateSampleProgressData(childId, 14) of both consumers.
SampleDays == 14

\* useState initial values: sessions [], weeklySummary [], skillProgress {}.
IdleProgress ==
    [sessions |-> <<>>, summaryAt |-> 0,
     weeklySummary |-> <<>>, skillProgress |-> <<>>]

\* No session data is stored or loaded.
AnalyticsIdle ==
    /\ therapySessions = <<>>
    /\ currentTherapyType = "behavior"
    /\ progressView = [c \in ProgressConsumers |-> IdleProgress]
    /\ days = SampleDays
    /\ sample = <<>>

\* The components that render the weekly goals of a plan.
GoalConsumers == {"TreatmentPlanView", "DailyTasks"}

\* The components that load the data of the selected child.
LoadConsumers == {"DailyTasks", "ProgressDashboard"}

\* The children of the parent, in the order of the children query.
LoadChildIds == <<"c1", "c2", "c3">>

\* No data loaded for any child.
NothingShown == [plan |-> "", sessions |-> "", insights |-> ""]

\* No plan is shown and no child is selected.
ViewsIdle ==
    /\ treatmentPlan = <<>>
    /\ goalItems = [c \in GoalConsumers |-> <<>>]
    /\ goalTags = <<>>
    /\ icsContent = <<>>
    /\ uploadingVideoFor = <<>>
    /\ uploads = <<>>
    /\ selectedChild = [c \in LoadConsumers |-> ""]
    /\ childrenQuery = [c \in LoadConsumers |-> "idle"]
    /\ loads = [c \in LoadConsumers |-> [k \in DOMAIN LoadChildIds |-> 0]]
    /\ shown = [c \in LoadConsumers |-> NothingShown]
    /\ loading = [c \in LoadConsumers |-> FALSE]

\* ----------------------------------------------------------------- Init
\* The component as mounted, no handleSubmit call under way.
ComponentInit ==
    /\ mounted = TRUE
    /\ processing = FALSE
    /\ status = ""
    /\ error = ""
    /\ audioFile = FALSE
    /\ documentFile = FALSE
    /\ pc = "idle"
    /\ submittedDocument = FALSE
    /\ summary = NullPayload
    /\ requests = <<>>
    /\ dailyTasksWithSuggestions = <<>>
    /\ documentUrl = ""
    /\ addDocData = <<>>
    /\ failure = "none"
    /\ plansAtSubmit = 0
    /\ tornDown = FALSE

PipelineInit ==
    /\ treatmentPlans = <<>>
    /\ answer \in Payloads
    /\ now = 1
    /\ form \in Forms
    /\ ComponentInit

\* ------------------------------------------------- component state
\* A state setter of an unmounted component has no effect.
SetStatus(s) == status' = IF mounted THEN s ELSE status

\* The locals of a call that has returned are gone.
DropLocals ==
    /\ submittedDocument' = FALSE
    /\ dailyTasksWithSuggestions' = <<>>
    /\ documentUrl' = ""
    /\ addDocData' = <<>>

\* Faulty variant of Catch: the in-progress flag is left set.
CatchKeepsProcessing(stage) ==
    /\ pc' = "failed"
    /\ failure' = stage
    /\ error' = IF mounted THEN "error" ELSE error
    /\ processing' = processing
    /\ summary' = NullPayload
    /\ DropLocals

\* The catch block (VoiceRecorder.tsx 157-161; TreatmentPlanForm.tsx
\* 114-119, whose finally clears loading): the run ends with an error.
Catch(stage) ==
    /\ pc' = "failed"
    /\ failure' = stage
    /\ error' = IF mounted THEN "error" ELSE error
    /\ processing' = IF mounted THEN FALSE ELSE processing
    /\ summary' = NullPayload
    /\ DropLocals

\* The run goes on to its next await.
Continue(next) ==
    /\ pc' = next
    /\ UNCHANGED <<failure, error, processing>>

\* Faulty variant of EnrichedTask: the id is built from the clock alone.
EnrichedTaskWithoutIndex(task, index) ==
    [id |-> <<"task", now, 0>>,
     title |-> task.title,
     description |-> task.description,
     whyItMatters |-> task.whyItMatters,
     weeklyGoalIndex |-> task.weeklyGoalIndex,
     demoVideoSuggestion |-> "v",
     editable |-> TRUE,
     createdAt |-> now]

\* The object the map callback returns for the task at `index` once its
\* suggestion request has resolved.  The id is the template literal
\* task_${Date.now()}_${index}, kept as its parts.  The requests of a run
\* may resolve within one millisecond: every task of the run reads the same
\* clock value, the case in which only the index tells the ids apart.
EnrichedTask(task, index) ==
    [id |-> <<"task", now, index>>,
     title |-> task.title,
     description |-> task.description,
     whyItMatters |-> task.whyItMatters,
     weeklyGoalIndex |-> task.weeklyGoalIndex,
     demoVideoSuggestion |-> "v",
     editable |-> TRUE,
     createdAt |-> now]

\* summary.dailyTasks.map(...) once every request has resolved: same length,
\* same order.
MapTasks(tasks) == [k \in DOMAIN tasks |-> EnrichedTask(tasks[k], k - 1)]

\* The document of Step 6.
\* VoiceRecorder writes therapyType: summary.therapyType || 'behavior';
\* TreatmentPlanForm writes no therapyType field.  hasSummary tells whether
\* the summary field (summary.summary) has a value.
PlanDocument(payload, tasks, url, createdAt) ==
    [childId |-> child,
     documentUrl |-> url,
     hasSummary |-> payload.hasSummary,
     therapyType |-> IF form = "TreatmentPlanForm" THEN Absent
                     ELSE IF Falsy(payload.therapyType) THEN "behavior"
                     ELSE payload.therapyType,
     weeklyGoals |-> payload.weeklyGoals,
     dailyTasks |-> tasks,
     createdAt |-> <<createdAt>>]

\* Step 6: new Date() is read and addDoc is called.
Step6(payload, tasks, url) ==
    /\ SetStatus("saving")
    /\ \E t \in {now} \cup {u \in {now + 1} : u <= MaxClock} :
          /\ now' = t
          /\ addDocData' = <<PlanDocument(payload, tasks, url, t)>>
    /\ Continue("addDoc")

\* Steps 5-6, entered once Promise.all has resolved with `tasks`.
Step5(payload, tasks) ==
    /\ dailyTasksWithSuggestions' = tasks
    /\ UNCHANGED <<submittedDocument, documentUrl>>
    /\ IF submittedDocument
          THEN /\ SetStatus("uploadingDoc")
               /\ Continue("docUploadBytes")
               /\ UNCHANGED <<now, addDocData>>
          ELSE Step6(payload, tasks, "")

\* ------------------------------------------------------------ actions
\* An audio file is chosen (VoiceRecorder.handleFileUpload,
\* TreatmentPlanForm.handleVoiceFileChange).
handleFileUpload ==
    /\ mounted /\ ~processing /\ ~audioFile
    /\ audioFile' = TRUE
    /\ error' = IF form = "VoiceRecorder" THEN "" ELSE error
    /\ UNCHANGED <<treatmentPlans, answer, now, form, mounted, processing, status,
                   documentFile, pc, localVars, requests, failure,
                   plansAtSubmit, tornDown>>
    /\ UNCHANGED <<childrenVars, consumerVars, analyticsVars, viewVars, loadVars>>

\* A companion document is chosen (VoiceRecorder.handleDocumentUpload,
\* TreatmentPlanForm.handleDocumentFileChange).
handleDocumentUpload ==
    /\ mounted /\ ~processing /\ ~documentFile
    /\ documentFile' = TRUE
    /\ error' = IF form = "VoiceRecorder" THEN "" ELSE error
    /\ UNCHANGED <<treatmentPlans, answer, now, form, mounted, processing, status,
                   audioFile, pc, localVars, requests, failure,
                   plansAtSubmit, tornDown>>
    /\ UNCHANGED <<childrenVars, consumerVars, analyticsVars, viewVars, loadVars>>

\* Faulty variant of handleSubmit: the submit control stays enabled while a
\* run is in progress.
handleSubmitWhileProcessing ==
    /\ mounted /\ audioFile
    /\ Len(treatmentPlans) < MaxPlans
    /\ error' = ""
    /\ processing' = TRUE
    /\ status' = "uploading"
    /\ pc' = "uploadBytes"
    /\ submittedDocument' = documentFile
    /\ summary' = NullPayload
    /\ requests' = <<>>
    /\ dailyTasksWithSuggestions' = <<>>
    /\ documentUrl' = ""
    /\ addDocData' = <<>>
    /\ failure' = "none"
    /\ plansAtSubmit' = Len(treatmentPlans)
    /\ tornDown' = FALSE
    /\ UNCHANGED <<treatmentPlans, answer, now, form, mounted, audioFile,
                   documentFile>>
    /\ UNCHANGED <<childrenVars, consumerVars, analyticsVars, viewVars, loadVars>>

\* handleSubmit up to its first await (Step 1 is started).  The controls
\* that call it are disabled while processing (loading) is set.
handleSubmit ==
    /\ mounted /\ ~processing /\ audioFile
    /\ Len(treatmentPlans) < MaxPlans
    /\ error' = ""
    /\ processing' = TRUE
    /\ status' = "uploading"
    /\ pc' = "uploadBytes"
    /\ submittedDocument' = documentFile
    /\ summary' = NullPayload
    /\ requests' = <<>>
    /\ dailyTasksWithSuggestions' = <<>>
    /\ documentUrl' = ""
    /\ addDocData' = <<>>
    /\ failure' = "none"
    /\ plansAtSubmit' = Len(treatmentPlans)
    /\ tornDown' = FALSE
    /\ UNCHANGED <<treatmentPlans, answer, now, form, mounted, audioFile,
                   documentFile>>
    /\ UNCHANGED <<childrenVars, consumerVars, analyticsVars, viewVars, loadVars>>

\* Step 1: await uploadBytes(voiceRef, audioFile).
uploadBytesSettles ==
    /\ pc = "uploadBytes"
    /\ \E ok \in BOOLEAN :
          IF ok THEN /\ Continue("getDownloadURL")
                     /\ UNCHANGED localVars
                ELSE Catch("audioUpload")
    /\ UNCHANGED <<treatmentPlans, answer, now, form, mounted, status, audioFile,
                   documentFile, requests, plansAtSubmit, tornDown>>
    /\ UNCHANGED <<childrenVars, consumerVars, analyticsVars, viewVars, loadVars>>

\* Step 1: await getDownloadURL(voiceRef); then Step 2 is started.
getDownloadURLSettles ==
    /\ pc = "getDownloadURL"
    /\ \E ok \in BOOLEAN :
          IF ok THEN /\ SetStatus("transcribing")
                     /\ Continue("transcribeAudio")
                     /\ UNCHANGED localVars
                ELSE /\ Catch("audioUpload")
                     /\ UNCHANGED status
    /\ UNCHANGED <<treatmentPlans, answer, now, form, mounted, audioFile,
                   documentFile, requests, plansAtSubmit, tornDown>>
    /\ UNCHANGED <<childrenVars, consumerVars, analyticsVars, viewVars, loadVars>>

\* Faulty variant of transcribeAudioSettles: a rejected transcription is swallowed and the run goes on.
transcribeAudioSwallowsError ==
    /\ pc = "transcribeAudio"
    /\ \E ok \in BOOLEAN :
          /\ SetStatus("generating")
          /\ pc' = "summarizeTreatmentPlan"
          /\ failure' = IF ok THEN failure ELSE "transcription"
          /\ UNCHANGED <<error, processing, localVars>>
    /\ UNCHANGED <<treatmentPlans, answer, now, form, mounted, audioFile,
                   documentFile, requests, plansAtSubmit, tornDown>>
    /\ UNCHANGED <<childrenVars, consumerVars, analyticsVars, viewVars, loadVars>>

\* Step 2: await transcribeAudio(audioFile); then Step 3 is started.
transcribeAudioSettles ==
    /\ pc = "transcribeAudio"
    /\ \E ok \in BOOLEAN :
          IF ok THEN /\ SetStatus("generating")
                     /\ Continue("summarizeTreatmentPlan")
                     /\ UNCHANGED localVars
                ELSE /\ Catch("transcription")
                     /\ UNCHANGED status
    /\ UNCHANGED <<treatmentPlans, answer, now, form, mounted, audioFile,
                   documentFile, requests, plansAtSubmit, tornDown>>
    /\ UNCHANGED <<childrenVars, consumerVars, analyticsVars, viewVars, loadVars>>

\* Step 3: summarizeTreatmentPlan rejects (network error, or JSON.parse
\* throws on the answer).
summarizeTreatmentPlanRejects ==
    /\ pc = "summarizeTreatmentPlan"
    /\ Catch("summarization")
    /\ UNCHANGED <<treatmentPlans, answer, now, form, mounted, status, audioFile,
                   documentFile, requests, plansAtSubmit, tornDown>>
    /\ UNCHANGED <<childrenVars, consumerVars, analyticsVars, viewVars, loadVars>>

\* Step 3 resolves with a payload; Step 4 issues one suggestion request per
\* daily task (summary.dailyTasks.map) and awaits Promise.all of them.
summarizeTreatmentPlanResolves ==
    /\ pc = "summarizeTreatmentPlan"
    /\ answer.isJSON
    /\ LET p == answer IN
          IF p.isNull \/ ~p.hasDailyTasks
             THEN \* summary.dailyTasks.map throws a TypeError
                  /\ SetStatus("suggesting")
                  /\ Catch("format")
                  /\ UNCHANGED <<requests, now>>
             ELSE /\ summary' = p
                  /\ requests' = [k \in 1..Len(p.dailyTasks) |-> "pending"]
                  /\ IF p.dailyTasks = <<>>
                        THEN \* Promise.all([]) resolves at once
                             Step5(p, <<>>)
                        ELSE /\ SetStatus("suggesting")
                             /\ Continue("Promise.all")
                             /\ UNCHANGED <<submittedDocument,
                                            dailyTasksWithSuggestions,
                                            documentUrl, addDocData, now>>
    /\ UNCHANGED <<treatmentPlans, answer, form, mounted, audioFile, documentFile,
                   plansAtSubmit, tornDown>>
    /\ UNCHANGED <<childrenVars, consumerVars, analyticsVars, viewVars, loadVars>>

\* Faulty variant of generateDemoVideoSuggestionSettles: the run goes on as
\* soon as one request has resolved.
generateDemoVideoSuggestionRaces ==
    /\ pc = "Promise.all"
    /\ \E k \in DOMAIN requests, ok \in BOOLEAN :
          /\ requests[k] = "pending"
          /\ requests' = [requests EXCEPT ![k] = IF ok THEN "ok" ELSE "failed"]
          /\ IF ~ok
                THEN /\ Catch("enrichment")
                     /\ UNCHANGED <<status, now>>
                ELSE /\ Step5(summary, MapTasks(summary.dailyTasks))
                     /\ UNCHANGED summary
    /\ UNCHANGED <<treatmentPlans, answer, form, mounted, audioFile, documentFile,
                   plansAtSubmit, tornDown>>
    /\ UNCHANGED <<childrenVars, consumerVars, analyticsVars, viewVars, loadVars>>

\* Step 4: one generateDemoVideoSuggestion(task.description) settles.
\* Promise.all rejects with the first rejection and resolves, in task
\* order, once every request has resolved.  A request that settles after
\* the run has left Step 4 has no continuation and changes nothing: it
\* stays "pending" in requests.
generateDemoVideoSuggestionSettles ==
    /\ pc = "Promise.all"
    /\ \E k \in DOMAIN requests, ok \in BOOLEAN :
          /\ requests[k] = "pending"
          /\ requests' = [requests EXCEPT ![k] = IF ok THEN "ok" ELSE "failed"]
          /\ IF ~ok
                THEN /\ Catch("enrichment")
                     /\ UNCHANGED <<status, now>>
                ELSE IF \A j \in DOMAIN requests : requests'[j] = "ok"
                THEN /\ Step5(summary, MapTasks(summary.dailyTasks))
                     /\ UNCHANGED summary
                ELSE UNCHANGED <<pc, status, failure, error, processing,
                                 localVars, now>>
    /\ UNCHANGED <<treatmentPlans, answer, form, mounted, audioFile, documentFile,
                   plansAtSubmit, tornDown>>
    /\ UNCHANGED <<childrenVars, consumerVars, analyticsVars, viewVars, loadVars>>

\* Step 5: await uploadBytes(docRef, documentFile).
docUploadBytesSettles ==
    /\ pc = "docUploadBytes"
    /\ \E ok \in BOOLEAN :
          IF ok THEN /\ Continue("docGetDownloadURL")
                     /\ UNCHANGED localVars
                ELSE Catch("documentUpload")
    /\ UNCHANGED <<treatmentPlans, answer, now, form, mounted, status, audioFile,
                   documentFile, requests, plansAtSubmit, tornDown>>
    /\ UNCHANGED <<childrenVars, consumerVars, analyticsVars, viewVars, loadVars>>

\* Step 5: await getDownloadURL(docRef); then Step 6.
docGetDownloadURLSettles ==
    /\ pc = "docGetDownloadURL"
    /\ \E ok \in BOOLEAN :
          IF ok THEN /\ documentUrl' = "url"
                     /\ Step6(summary, dailyTasksWithSuggestions, "url")
                     /\ UNCHANGED <<submittedDocument, summary,
                                    dailyTasksWithSuggestions>>
                ELSE /\ Catch("documentUpload")
                     /\ UNCHANGED <<status, now>>
    /\ UNCHANGED <<treatmentPlans, answer, form, mounted, audioFile, documentFile,
                   requests, plansAtSubmit, tornDown>>
    /\ UNCHANGED <<childrenVars, consumerVars, analyticsVars, viewVars, loadVars>>

\* Faulty variant of addDocSettles: the plan is written under a fixed document id (setDoc), so a
\* new plan replaces the stored one.
addDocReplaces ==
    /\ pc = "addDoc"
    /\ treatmentPlans' = <<addDocData[1]>>
    /\ SetStatus("success")
    /\ pc' = "succeeded"
    /\ DropLocals
    /\ UNCHANGED <<summary, failure, error, audioFile, documentFile,
                   processing>>
    /\ UNCHANGED <<answer, now, form, mounted, requests, plansAtSubmit,
                   tornDown>>
    /\ UNCHANGED <<childrenVars, consumerVars, analyticsVars, viewVars, loadVars>>

\* Step 6: await addDoc(collection(db, 'treatmentPlans'), ...) settles;
\* on success the record is in the collection and the success branch runs.
addDocSettles ==
    /\ pc = "addDoc"
    /\ \E ok \in BOOLEAN :
          IF ok
             THEN /\ treatmentPlans' = Append(treatmentPlans, addDocData[1])
                  /\ SetStatus("success")
                  /\ pc' = "succeeded"
                  /\ IF form = "TreatmentPlanForm" /\ mounted
                        THEN \* setVoiceFile(null), setDocumentFile(null),
                             \* finally setLoading(false)
                             /\ audioFile' = FALSE
                             /\ documentFile' = FALSE
                             /\ processing' = FALSE
                        ELSE UNCHANGED <<audioFile, documentFile, processing>>
                  /\ DropLocals
                  /\ UNCHANGED <<summary, failure, error>>
             ELSE /\ Catch("persist")
                  /\ UNCHANGED <<treatmentPlans, status, audioFile,
                                 documentFile>>
    /\ UNCHANGED <<answer, now, form, mounted, requests, plansAtSubmit,
                   tornDown>>
    /\ UNCHANGED <<childrenVars, consumerVars, analyticsVars, viewVars, loadVars>>

\* VoiceRecorder's setTimeout(() => onComplete(child), 1500): PatientList
\* clears recordingForPatient, which unmounts the recorder.
onComplete ==
    /\ form = "VoiceRecorder" /\ mounted /\ pc = "succeeded"
    /\ mounted' = FALSE
    /\ processing' = FALSE
    /\ status' = ""
    /\ error' = ""
    /\ audioFile' = FALSE
    /\ documentFile' = FALSE
    /\ UNCHANGED <<treatmentPlans, answer, now, form, pc, localVars, requests,
                   failure, plansAtSubmit, tornDown>>
    /\ UNCHANGED <<childrenVars, consumerVars, analyticsVars, viewVars, loadVars>>

\* The component is unmounted by its host and its state is discarded:
\* PatientList renders the recorder only for recordingForPatient, and the
\* record button of every other patient stays enabled during a run.
Unmount ==
    /\ mounted
    /\ mounted' = FALSE
    /\ processing' = FALSE
    /\ status' = ""
    /\ error' = ""
    /\ audioFile' = FALSE
    /\ documentFile' = FALSE
    /\ tornDown' = (tornDown \/ RunInProgress)
    /\ UNCHANGED <<treatmentPlans, answer, now, form, pc, localVars, requests,
                   failure, plansAtSubmit>>
    /\ UNCHANGED <<childrenVars, consumerVars, analyticsVars, viewVars, loadVars>>

\* A fresh component is mounted (useState initial values).  The model
\* follows one run at a time: a new component appears once the run of the
\* previous one has ended.  A host mounts the same component again.
Mount ==
    /\ ~mounted /\ ~RunInProgress
    /\ mounted' = TRUE
    /\ pc' = "idle"
    /\ summary' = NullPayload
    /\ requests' = <<>>
    /\ failure' = "none"
    /\ plansAtSubmit' = Len(treatmentPlans)
    /\ tornDown' = FALSE
    /\ UNCHANGED <<treatmentPlans, answer, now, form, componentVars,
                   submittedDocument, dailyTasksWithSuggestions, documentUrl,
                   addDocData>>
    /\ UNCHANGED <<childrenVars, consumerVars, analyticsVars, viewVars, loadVars>>

PipelineNext ==
    \/ handleFileUpload
    \/ handleDocumentUpload
    \/ handleSubmit
    \/ uploadBytesSettles
    \/ getDownloadURLSettles
    \/ transcribeAudioSettles
    \/ summarizeTreatmentPlanRejects
    \/ summarizeTreatmentPlanResolves
    \/ generateDemoVideoSuggestionSettles
    \/ docUploadBytesSettles
    \/ docGetDownloadURLSettles
    \/ addDocSettles
    \/ onComplete
    \/ Unmount
    \/ Mount

Init ==
    PipelineInit /\ ChildrenIdle /\ ConsumersIdle /\ AnalyticsIdle /\ ViewsIdle

\* The pipeline, run on the answers of FormatPayloads.
FormatInit ==
    /\ treatmentPlans = <<>>
    /\ answer \in FormatPayloads
    /\ now = 1
    /\ form \in Forms
    /\ ComponentInit
    /\ ChildrenIdle
    /\ ConsumersIdle
    /\ AnalyticsIdle
    /\ ViewsIdle

SpecFormats == FormatInit /\ [][PipelineNext]_vars

Spec == Init /\ [][PipelineNext]_vars

\* ====================================================== pipeline claims
RunEnded == pc \in {"failed", "succeeded"}

\* The plans the current run has added to the collection.
WrittenByRun == Len(treatmentPlans) - plansAtSubmit

LastPlan == treatmentPlans[Len(treatmentPlans)]

\* The calls whose failure is a failure of a required stage: Step 1
\* (uploadBytes, getDownloadURL), Step 2, Step 3 (a rejection, or an answer
\* that is null or has no dailyTasks).
RequiredStageFailures ==
    {"audioUpload", "transcription", "summarization", "format"}

\* C1: if the audio upload, the transcription or the summarization of a run
\* fails, the run has aborted and has written no plan record.
C1_RequiredStageFailureAborts ==
    failure \in RequiredStageFailures =>
        /\ pc = "failed"
        /\ WrittenByRun = 0

\* A second run, started after a first one stored a plan, fails in
\* summarization.
C1_Witness ==
    /\ failure = "summarization"
    /\ pc = "failed"
    /\ plansAtSubmit = 1

\* C2: a run whose suggestion request failed for some of the daily tasks
\* still persists a plan with every daily task, the failed ones without
\* demoVideoSuggestion and the others with their suggestion.
C2_FailedSuggestionKeepsPlan ==
    (RunEnded /\ \E k \in DOMAIN requests : requests[k] = "failed") =>
        /\ WrittenByRun = 1
        /\ Len(LastPlan.dailyTasks) = Len(answer.dailyTasks)
        /\ \A k \in DOMAIN requests :
              LastPlan.dailyTasks[k].demoVideoSuggestion =
                  IF requests[k] = "ok" THEN "v" ELSE Absent

\* C3: a run whose companion-document upload failed still persists the
\* plan, with documentUrl empty.
C3_FailedDocumentUploadKeepsPlan ==
    failure = "documentUpload" =>
        /\ WrittenByRun = 1
        /\ LastPlan.documentUrl = ""

\* C4: every daily task of every stored plan has a weeklyGoalIndex within
\* [0, length of the plan's weeklyGoals).
C4_GoalIndexInRange ==
    \A i \in DOMAIN treatmentPlans :
        \A k \in DOMAIN treatmentPlans[i].dailyTasks :
            treatmentPlans[i].dailyTasks[k].weeklyGoalIndex
                \in 0..(Len(treatmentPlans[i].weeklyGoals) - 1)

\* C5: when the answer has a task whose weeklyGoalIndex is out of range for
\* the answer's weeklyGoals, the persisted task refers to the last goal.
C5_OutOfRangeIndexClamped ==
    pc = "succeeded" =>
        LET n == Len(summary.weeklyGoals) IN
        \A k \in DOMAIN summary.dailyTasks :
            (n > 0 /\ summary.dailyTasks[k].weeklyGoalIndex \notin 0..(n - 1))
                => LastPlan.dailyTasks[k].weeklyGoalIndex = n - 1

\* C6: a run whose component was unmounted while it was in progress writes
\* no plan record.
C6_TornDownRunWritesNothing ==
    tornDown => WrittenByRun = 0

\* C10: the collection only grows by one record at a time, at the success
\* of a run's addDoc; the stored records are never changed or removed, and a
\* run that has succeeded has added exactly one record.
C10_PlansAppendOnly ==
    [][/\ Len(treatmentPlans) <= Len(treatmentPlans')
       /\ \A i \in DOMAIN treatmentPlans :
             treatmentPlans'[i] = treatmentPlans[i]
       /\ Len(treatmentPlans') <= Len(treatmentPlans) + 1
       /\ (Len(treatmentPlans') = Len(treatmentPlans) + 1
              <=> (pc = "addDoc" /\ pc' = "succeeded"))
       /\ (pc' = "succeeded" => Len(treatmentPlans') = plansAtSubmit' + 1)]_vars

\* A re-run for the same child has succeeded: two records are stored.
C10_Witness ==
    /\ pc = "succeeded"
    /\ plansAtSubmit = 1
    /\ Len(treatmentPlans) = 2

\* The answers of the runs of SpecTerminating: one of each shape, with any
\* number of daily tasks; the goals and goal indices do not bear on the
\* course of a run.
TerminatingPayloads ==
    {p \in Payloads :
        /\ p.weeklyGoals = <<>>
        /\ \A k \in DOMAIN p.dailyTasks : p.dailyTasks[k].weeklyGoalIndex = 0}

TerminatingInit ==
    /\ treatmentPlans = <<>>
    /\ answer \in TerminatingPayloads
    /\ now = 1
    /\ form \in Forms
    /\ ComponentInit
    /\ ChildrenIdle
    /\ ConsumersIdle
    /\ AnalyticsIdle
    /\ ViewsIdle

\* The pipeline under the assumption that every external call returns a
\* result or an error: each awaited call that is outstanding settles.
SpecTerminating ==
    /\ TerminatingInit
    /\ [][PipelineNext]_vars
    /\ WF_vars(uploadBytesSettles)
    /\ WF_vars(getDownloadURLSettles)
    /\ WF_vars(transcribeAudioSettles)
    /\ WF_vars(summarizeTreatmentPlanRejects \/ summarizeTreatmentPlanResolves)
    /\ WF_vars(generateDemoVideoSuggestionSettles)
    /\ WF_vars(docUploadBytesSettles)
    /\ WF_vars(docGetDownloadURLSettles)
    /\ WF_vars(addDocSettles)

\* C22: at the end of a run an error message is shown exactly when the run
\* created no plan record, and the success status is shown exactly when it
\* created one.
C22_OutcomeTellsSavedFromNotSaved ==
    [][(RunInProgress /\ pc' \in {"failed", "succeeded"}) =>
          /\ (error' # "") <=> (Len(treatmentPlans') = plansAtSubmit')
          /\ (status' = "success")
                <=> (Len(treatmentPlans') = plansAtSubmit' + 1)]_vars

\* C24: the stages of a run start in the order audio upload, transcribe,
\* summarize, enrich, optional document upload, persist, each from the
\* success of the one before it, and addDoc is called only when every
\* suggestion request of the run has completed.
C24_StagesInOrder ==
    [][LET Ended == {"idle", "failed", "succeeded"}
           Order ==
               {<<"uploadBytes", "getDownloadURL">>,
                <<"getDownloadURL", "transcribeAudio">>,
                <<"transcribeAudio", "summarizeTreatmentPlan">>,
                <<"summarizeTreatmentPlan", "Promise.all">>,
                <<"summarizeTreatmentPlan", "docUploadBytes">>,
                <<"summarizeTreatmentPlan", "addDoc">>,
                <<"Promise.all", "docUploadBytes">>,
                <<"Promise.all", "addDoc">>,
                <<"docUploadBytes", "docGetDownloadURL">>,
                <<"docGetDownloadURL", "addDoc">>,
                <<"addDoc", "succeeded">>}
                   \cup {<<s, "failed">> : s \in InFlight}
                   \cup {<<e, "uploadBytes">> : e \in Ended}
                   \cup {<<e, "idle">> : e \in Ended}
       IN  /\ pc' # pc => <<pc, pc'>> \in Order
           /\ pc' = "docUploadBytes" => submittedDocument'
           /\ pc' \in {"docUploadBytes", "docGetDownloadURL", "addDoc"} =>
                 /\ Len(requests') = Len(answer.dailyTasks)
                 /\ \A k \in DOMAIN requests' : requests'[k] = "ok"]_vars

\* The plan write of a run with a companion document and two tasks has been
\* issued.
C24_Witness ==
    /\ pc = "addDoc"
    /\ submittedDocument
    /\ Len(requests) = 2
    /\ documentUrl = "url"

\* C25: every suggestion request of a run is issued before any is awaited,
\* and the run leaves the enrichment stage, towards persistence or towards
\* the error report, only when every request has settled.
C25_EnrichmentWaitsForEveryRequest ==
    [][/\ (pc = "summarizeTreatmentPlan" /\ pc' = "Promise.all") =>
             /\ Len(requests') = Len(answer.dailyTasks)
             /\ \A k \in DOMAIN requests' : requests'[k] = "pending"
       /\ (pc = "Promise.all" /\ pc' # "Promise.all") =>
             \A k \in DOMAIN requests' : requests'[k] # "pending"]_vars

C27_RunTerminatesAndFormIsFreed ==
    /\ [](pc = "succeeded" => WrittenByRun = 1)
    /\ [](pc = "failed" =>
             /\ WrittenByRun = 0
             /\ failure # "none"
             /\ mounted => (~processing /\ audioFile))
    /\ (RunInProgress ~> RunEnded)

\* A run has ended in the catch block of a mounted form that shows the error.
C27_Witness ==
    /\ pc = "failed"
    /\ mounted
    /\ ~processing
    /\ error = "error"
    /\ failure = "persist"

\* C29: a run starts only when no run of the form is in progress, the form's
\* in-progress flag is set for as long as its run is, and a run persists at
\* most one plan record.
C29_OneRunPerForm ==
    /\ []((RunInProgress /\ mounted) => processing)
    /\ [](WrittenByRun \in {0, 1})
    /\ [][(pc' = "uploadBytes" /\ pc # "uploadBytes") => ~RunInProgress]_vars

\* A run of a mounted form is waiting for its plan write; its audio is
\* still selected and its submit control is disabled.
C29_Witness ==
    /\ pc = "addDoc"
    /\ mounted
    /\ processing
    /\ audioFile

\* ===================================================== format claims
\* C11: the weeklyGoals of every stored plan are tagged objects
\* {goal, category}, in the order of the answer's weeklyGoals, also when the
\* answer gave bare strings.
C11_WeeklyGoalsTagged ==
    \A i \in DOMAIN treatmentPlans :
        LET goals == treatmentPlans[i].weeklyGoals IN
        /\ Len(goals) = Len(answer.weeklyGoals)
        /\ \A k \in DOMAIN goals :
              /\ goals[k].tagged
              /\ goals[k].goal = answer.weeklyGoals[k].goal

\* C12: the therapyType of every stored plan, written through either form,
\* is one of the four types: the answer's when that is one of the four,
\* behavior otherwise.
C12_TherapyTypeInClosedSet ==
    \A i \in DOMAIN treatmentPlans :
        /\ treatmentPlans[i].therapyType \in TherapyTypes
        /\ treatmentPlans[i].therapyType =
              IF answer.therapyType \in TherapyTypes
                 THEN answer.therapyType
                 ELSE "behavior"

NationalIds == {"n1", "n2"}

RECURSIVE Matching(_, _)
\* getDocs(query(childrenRef, where('nationalId', '==', n))): the ids of the
\* matching documents among the first k, in the order of the collection.
Matching(n, k) ==
    IF k = 0 THEN <<>>
    ELSE IF children[k].nationalId = n
         THEN Append(Matching(n, k - 1), k)
         ELSE Matching(n, k - 1)

QuerySnapshot(n) == Matching(n, Len(children))

\* The handler of user u is suspended at its write (pcv), or has returned
\* ("idle": it has written, or it has set its error message and written
\* nothing).
SetSession(u, pcv, n, target) ==
    session' = [session EXCEPT
                   ![u] = [pc |-> pcv, nationalId |-> n, target |-> target]]

\* ParentProfile.handleAddChild up to its write: the query is answered and
\* the handler decides between linking, creating and refusing.
ParentProfile_handleAddChild ==
    \E p \in Parents, n \in NationalIds :
        /\ session[p].pc = "idle"
        /\ \E ok \in BOOLEAN :
              LET docs == QuerySnapshot(n) IN
              IF ~ok THEN SetSession(p, "idle", "", 0)
              ELSE IF docs # <<>>
              THEN LET childData == children[docs[1]] IN
                   IF ~Falsy(childData.parentId) /\ childData.parentId # p
                      THEN SetSession(p, "idle", "", 0)
                      ELSE SetSession(p, "updateDoc", n, docs[1])
              ELSE SetSession(p, "addDoc", n, 0)
        /\ UNCHANGED <<children, searchResults>>
        /\ UNCHANGED <<pipelineVars, consumerVars, analyticsVars, viewVars, loadVars>>

\* handleAddChild: await updateDoc(childRef, {parentId, name}) settles.
ParentProfile_updateDocSettles ==
    \E p \in Parents :
        /\ session[p].pc = "updateDoc"
        /\ \E ok \in BOOLEAN :
              IF ok
                 THEN children' =
                          [children EXCEPT
                              ![session[p].target].parentId = p,
                              ![session[p].target].name = p]
                 ELSE UNCHANGED children
        /\ SetSession(p, "idle", "", 0)
        /\ UNCHANGED searchResults
        /\ UNCHANGED <<pipelineVars, consumerVars, analyticsVars, viewVars, loadVars>>

\* handleAddChild: await addDoc(collection(db, 'children'), ...) settles.
ParentProfile_addDocSettles ==
    \E p \in Parents :
        /\ session[p].pc = "addDoc"
        /\ Len(children) < MaxChildren
        /\ \E ok \in BOOLEAN :
              IF ok
                 THEN children' =
                          Append(children,
                                 [nationalId |-> session[p].nationalId,
                                  name |-> p,
                                  parentId |-> p,
                                  therapistId |-> Absent])
                 ELSE UNCHANGED children
        /\ SetSession(p, "idle", "", 0)
        /\ UNCHANGED searchResults
        /\ UNCHANGED <<pipelineVars, consumerVars, analyticsVars, viewVars, loadVars>>

\* handleSearchPatient (PatientList) / handleSearch (PatientSearch): the
\* Child objects of the answer are kept in searchResults.
SearchPatient(t, n) ==
    /\ session[t].pc = "idle"
    /\ LET docs == QuerySnapshot(n) IN
       /\ searchResults' =
             [searchResults EXCEPT
                 ![t] = [k \in DOMAIN docs |->
                            [id |-> docs[k],
                             therapistId |-> children[docs[k]].therapistId]]]
       /\ UNCHANGED session
    /\ UNCHANGED children
    /\ UNCHANGED <<pipelineVars, consumerVars, analyticsVars, viewVars, loadVars>>

\* handleAssignToMe(child): the button is rendered for a search result
\* whose therapistId is falsy; updateDoc(childRef, {therapistId}) settles.
AssignToMe(t) ==
    \E k \in DOMAIN searchResults[t], ok \in BOOLEAN :
        /\ Falsy(searchResults[t][k].therapistId)
        /\ IF ok
              THEN /\ children' =
                         [children EXCEPT
                             ![searchResults[t][k].id].therapistId = t]
                   /\ searchResults' = [searchResults EXCEPT ![t] = <<>>]
              ELSE UNCHANGED <<children, searchResults>>
        /\ UNCHANGED session
        /\ UNCHANGED <<pipelineVars, consumerVars, analyticsVars, viewVars, loadVars>>

\* handleAddNewPatient up to its write: the query is answered.
AddNewPatient(t, n) ==
    /\ session[t].pc = "idle"
    /\ \E ok \in BOOLEAN :
          IF ok /\ QuerySnapshot(n) = <<>>
             THEN SetSession(t, "addDoc", n, 0)
             ELSE SetSession(t, "idle", "", 0)
    /\ UNCHANGED <<children, searchResults>>
    /\ UNCHANGED <<pipelineVars, consumerVars, analyticsVars, viewVars, loadVars>>

\* handleAddNewPatient: await addDoc(collection(db, 'children'), ...).
AddNewPatientSettles(t) ==
    /\ session[t].pc = "addDoc"
    /\ Len(children) < MaxChildren
    /\ \E ok \in BOOLEAN :
          IF ok
             THEN children' =
                      Append(children,
                             [nationalId |-> session[t].nationalId,
                              name |-> t,
                              parentId |-> "",
                              therapistId |-> t])
             ELSE UNCHANGED children
    /\ SetSession(t, "idle", "", 0)
    /\ UNCHANGED searchResults
    /\ UNCHANGED <<pipelineVars, consumerVars, analyticsVars, viewVars, loadVars>>

PatientList_handleSearchPatient ==
    \E t \in PatientListUsers, n \in NationalIds : SearchPatient(t, n)

PatientList_handleAssignToMe ==
    \E t \in PatientListUsers : AssignToMe(t)

PatientList_handleAddNewPatient ==
    \E t \in PatientListUsers, n \in NationalIds : AddNewPatient(t, n)

PatientList_addDocSettles ==
    \E t \in PatientListUsers : AddNewPatientSettles(t)

PatientSearch_handleSearch ==
    \E t \in PatientSearchUsers, n \in NationalIds : SearchPatient(t, n)

PatientSearch_handleAssignToMe ==
    \E t \in PatientSearchUsers : AssignToMe(t)

PatientSearch_handleAddNewPatient ==
    \E t \in PatientSearchUsers, n \in NationalIds : AddNewPatient(t, n)

PatientSearch_addDocSettles ==
    \E t \in PatientSearchUsers : AddNewPatientSettles(t)

ChildrenNext ==
    \/ ParentProfile_handleAddChild
    \/ ParentProfile_updateDocSettles
    \/ ParentProfile_addDocSettles
    \/ PatientList_handleSearchPatient
    \/ PatientList_handleAssignToMe
    \/ PatientList_handleAddNewPatient
    \/ PatientList_addDocSettles
    \/ PatientSearch_handleSearch
    \/ PatientSearch_handleAssignToMe
    \/ PatientSearch_handleAddNewPatient
    \/ PatientSearch_addDocSettles

\* No pipeline run: the form as mounted.
PipelineIdle ==
    /\ PipelineInit
    /\ form = "VoiceRecorder"
    /\ answer = NullPayload

ChildrenInit ==
    PipelineIdle /\ ChildrenIdle /\ ConsumersIdle /\ AnalyticsIdle
        /\ ViewsIdle

SpecChildren == ChildrenInit /\ [][ChildrenNext]_vars

\* ================================================= child-record claims
\* C7: a stored parentId (therapistId) that is a non-empty id is never replaced
\* by a different one: an attach attempted by another user leaves the link as
\* it is.
C7_LinkedChildNeverReassigned ==
    [][\A i \in DOMAIN children :
          /\ ~Falsy(children[i].parentId) =>
                children'[i].parentId = children[i].parentId
          /\ ~Falsy(children[i].therapistId) =>
                children'[i].therapistId = children[i].therapistId]_vars

\* C8: no two records of the children collection have the same nationalId.
C8_NationalIdUnique ==
    \A i, j \in DOMAIN children :
        i # j => children[i].nationalId # children[j].nationalId

\* ======================================================= current plan
MaxStored == 2
MaxTicks == 1

ChildIds == {child, "c2"}

\* The records the consumers may find in the collection: the documents of
\* Step 6, and documents without a createdAt field, for which the consumers
\* carry the fallback `|| new Date()`.
StoredPlanValues ==
    [childId : ChildIds, documentUrl : {""}, hasSummary : {TRUE},
     therapyType : {"behavior"}, weeklyGoals : {<<>>}, dailyTasks : {<<>>},
     createdAt : {<<>>} \cup {<<t>> : t \in 1..MaxClock}]

\* The values new Date() returns while a consumer loads: not before the
\* stored timestamps.
LoadClockValues == MaxClock..(MaxClock + MaxTicks)

\* The successive new Date() reads of one docs.map(...) call.
LoadClocks(n) ==
    {f \in [1..n -> LoadClockValues] :
        \A i, j \in 1..n : i < j => f[i] <= f[j]}

RECURSIVE PlansMatching(_, _)
\* getDocs(query(plansRef, where('childId', '==', childId))): the ids of the
\* matching documents among the first k, in the order of the collection.
PlansMatching(childId, k) ==
    IF k = 0 THEN <<>>
    ELSE IF treatmentPlans[k].childId = childId
         THEN Append(PlansMatching(childId, k - 1), k)
         ELSE PlansMatching(childId, k - 1)

PlansSnapshot(childId) == PlansMatching(childId, Len(treatmentPlans))

\* querySnapshot.docs.map(doc => ({id, ...doc.data(),
\*     createdAt: doc.data().createdAt?.toDate() || new Date()})).
MapDocs(docs, clock) ==
    [k \in DOMAIN docs |->
        [id |-> docs[k],
         createdAt |-> IF treatmentPlans[docs[k]].createdAt = <<>>
                          THEN clock[k]
                          ELSE treatmentPlans[docs[k]].createdAt[1]]]

\* The place of x in a list sorted by the comparator
\* (a, b) => b.createdAt.getTime() - a.createdAt.getTime(): after the
\* elements that do not compare greater than it.
InsertSorted(x, s) ==
    LET k == Cardinality({i \in DOMAIN s : s[i].createdAt >= x.createdAt})
    IN  SubSeq(s, 1, k) \o <<x>> \o SubSeq(s, k + 1, Len(s))

RECURSIVE Sort(_)
\* Array.prototype.sort with that comparator: descending, stable.
Sort(plans) ==
    IF plans = <<>> THEN <<>>
    ELSE InsertSorted(plans[Len(plans)],
                      Sort(SubSeq(plans, 1, Len(plans) - 1)))

SetSelected(c, childId, plan) ==
    selected' = [selected EXCEPT ![c] = [childId |-> childId, plan |-> plan]]

\* DailyTasks.loadTreatmentPlan(childId).
DailyTasks_loadTreatmentPlan ==
    \E childId \in ChildIds, ok \in BOOLEAN :
        LET docs == PlansSnapshot(childId) IN
        /\ \E clock \in LoadClocks(Len(docs)) :
              IF ~ok THEN UNCHANGED selected
              ELSE IF docs # <<>>
              THEN SetSelected("DailyTasks", childId,
                               Sort(MapDocs(docs, clock))[1].id)
              ELSE SetSelected("DailyTasks", childId, 0)
        /\ UNCHANGED <<pipelineVars, childrenVars, analyticsVars, viewVars, loadVars>>

\* TreatmentPlanView.loadTreatmentPlan(), for its child prop.
TreatmentPlanView_loadTreatmentPlan ==
    \E childId \in ChildIds, ok \in BOOLEAN :
        LET docs == PlansSnapshot(childId) IN
        /\ \E clock \in LoadClocks(Len(docs)) :
              IF ~ok THEN UNCHANGED selected
              ELSE IF docs # <<>>
              THEN SetSelected("TreatmentPlanView", childId,
                               Sort(MapDocs(docs, clock))[1].id)
              ELSE SetSelected("TreatmentPlanView", childId, 0)
        /\ UNCHANGED <<pipelineVars, childrenVars, analyticsVars, viewVars, loadVars>>

\* ProgressDashboard.loadProgress(childId), up to setTherapyType: the plan
\* whose therapyType it takes. With no plan the default type is used.
ProgressDashboard_loadProgress ==
    \E childId \in ChildIds, ok \in BOOLEAN :
        LET docs == PlansSnapshot(childId) IN
        /\ \E clock \in LoadClocks(Len(docs)) :
              IF ~ok THEN UNCHANGED selected
              ELSE IF docs # <<>>
              THEN SetSelected("ProgressDashboard", childId,
                               Sort(MapDocs(docs, clock))[1].id)
              ELSE SetSelected("ProgressDashboard", childId, 0)
        /\ UNCHANGED <<pipelineVars, childrenVars, analyticsVars, viewVars, loadVars>>

CurrentPlanNext ==
    \/ DailyTasks_loadTreatmentPlan
    \/ TreatmentPlanView_loadTreatmentPlan
    \/ ProgressDashboard_loadProgress

\* A stored collection, read after its records were written.
CurrentPlanInit ==
    /\ treatmentPlans \in SeqsUpTo(StoredPlanValues, MaxStored)
    /\ answer = NullPayload
    /\ now = MaxClock
    /\ form = "VoiceRecorder"
    /\ ComponentInit
    /\ ChildrenIdle
    /\ ConsumersIdle
    /\ AnalyticsIdle
    /\ ViewsIdle

SpecCurrentPlan == CurrentPlanInit /\ [][CurrentPlanNext]_vars

MaxSessions == 2
MaxDays == 14
TicksPerDay == 2

\* Time is counted in ticks; a Date is its tick.  date.setDate(getDate() - n)
\* moves a Date back by n days at the same time of day.
DaysBefore(date, n) == date - n * TicksPerDay

\* new Date() at the start of a load.
Today == 30 * TicksPerDay

\* new Date() of generateWeeklySummary, which runs after the sessions were
\* fetched or generated: the same instant or a later one.
SummaryTimes == {Today, Today + 1}

\* Math.random(), in hundredths: a value of [0, 1).
RandValues == {0, 55, 95}

\* Array.prototype.reverse.
Reverse(s) == [k \in DOMAIN s |-> s[Len(s) + 1 - k]]

\* The completedAt values of stored sessions: now, one day ago, and around
\* the start of the newest and of the oldest week of the summary.
SessionTimes ==
    {Today, DaysBefore(Today, 1), DaysBefore(Today, 7),
     DaysBefore(Today, 7) - 1, DaysBefore(Today, 28),
     DaysBefore(Today, 28) - 1}

\* The therapySessions documents a parent's feedback writes, as doc.data()
\* returns them: the Date written as completedAt is read back as a Firestore
\* Timestamp (isTimestamp).  The feedback form writes completed: true.
SessionValues ==
    {[id |-> <<"doc">>, completed |-> TRUE, feedback |-> f,
      childMood |-> "happy", completedAt |-> t, isTimestamp |-> TRUE] :
        f \in {"easy"}, t \in SessionTimes}

\* The feedback of the sample record of loop index i: the band is chosen by
\* dayProgress = i / n, the value by rand.
SampleFeedback(i, n, rand) ==
    IF 10 * i > 7 * n
       THEN IF rand < 70 THEN "easy"
            ELSE IF rand < 90 THEN "needs_practice" ELSE "struggled"
    ELSE IF 10 * i > 4 * n
       THEN IF rand < 40 THEN "easy"
            ELSE IF rand < 70 THEN "needs_practice" ELSE "struggled"
    ELSE IF rand < 20 THEN "easy"
         ELSE IF rand < 60 THEN "needs_practice" ELSE "struggled"

\* The mood of a sample record, from its feedback and further draws.
SampleMood(feedback, rand) ==
    IF feedback = "easy"
       THEN IF rand < 80 THEN "happy" ELSE "neutral"
    ELSE IF feedback = "needs_practice"
       THEN IF rand < 50 THEN "neutral"
            ELSE IF rand < 70 THEN "happy" ELSE "frustrated"
    ELSE IF rand < 60 THEN "frustrated" ELSE "neutral"

\* The record pushed by the loop body for index i:
\* completed = Math.random() < 0.5 + (i / n) * 0.4.
SampleSession(childId, i, n, rand) ==
    [id |-> <<"session", childId, i>>,
     completed |-> rand * n < 50 * n + 40 * i,
     feedback |-> SampleFeedback(i, n, rand),
     childMood |-> SampleMood(SampleFeedback(i, n, rand), rand),
     completedAt |-> DaysBefore(Today, i), isTimestamp |-> FALSE]

\* Faulty variant of generateSampleProgressData: the array is returned as
\* the loop built it, newest first.
generateSampleProgressDataUnreversed(childId, n, rand) ==
    [k \in 1..n |-> SampleSession(childId, k - 1, n, rand[k - 1])]

\* generateSampleProgressData(childId, n): the loop pushes the records of
\* i = 0 .. n - 1 and the array is reversed.  rand[i] is what Math.random()
\* returns in iteration i.
generateSampleProgressData(childId, n, rand) ==
    Reverse([k \in 1..n |-> SampleSession(childId, k - 1, n, rand[k - 1])])

\* The draws of one generation: they alternate between two values.
SampleDraws(n) ==
    {[i \in 0..(n - 1) |-> IF i % 2 = 0 THEN a ELSE b] :
        a \in RandValues, b \in RandValues}

\* Faulty variant of CompletionRate: the percentage is truncated.
CompletionRateTruncated(completed, total) ==
    IF total > 0 THEN (100 * completed) \div total ELSE 0

\* Math.round((completed / total) * 100) under the guard total > 0.
CompletionRate(completed, total) ==
    IF total > 0 THEN (200 * completed + total) \div (2 * total) ELSE 0

\* new Date(s.completedAt): <<tick>>, or <<>> for an Invalid Date.  A Date
\* is copied.  A Firestore Timestamp is not unwrapped with toDate(): the
\* constructor converts the object to a primitive, and `parses` tells
\* whether the SDK's primitive is read as the instant.
NewDate(s, parses) ==
    IF s.isTimestamp /\ ~parses THEN <<>> ELSE <<s.completedAt>>

\* The bucket of weekIndex in generateWeeklySummary.  Every comparison with
\* an Invalid Date is false.
WeekBucket(sessions, weekIndex, today, rand, parses) ==
    LET weekStart == DaysBefore(today, weekIndex * 7 + 7)
        weekEnd == DaysBefore(weekStart, -6)
        weekSessions ==
            {k \in DOMAIN sessions :
                LET sessionDate == NewDate(sessions[k], parses) IN
                /\ sessionDate # <<>>
                /\ sessionDate[1] >= weekStart
                /\ sessionDate[1] <= weekEnd}
        completed == Cardinality({k \in weekSessions : sessions[k].completed})
        total == Cardinality(weekSessions)
    IN  [weekStart |-> weekStart,
         weekEnd |-> weekEnd,
         tasksCompleted |-> completed,
         totalTasks |-> total,
         completionRate |-> CompletionRate(completed, total),
         engagementRate |-> (30 * rand + 7050) \div 100]

\* generateWeeklySummary(sessions): weekIndex 0 .. 3 are pushed and the
\* array is reversed.
generateWeeklySummary(sessions, today, rand, parses) ==
    Reverse([k \in 1..4 |->
                WeekBucket(sessions, k - 1, today, rand, parses)])

\* The skill names of calculateSkillProgress's switch.
SkillNames(type) ==
    IF type = "speech"
       THEN <<"Articulation", "Vocabulary", "Sentence Formation",
              "Comprehension">>
    ELSE IF type = "behavior"
       THEN <<"Following Instructions", "Social Skills", "Self-Regulation",
              "Task Completion">>
    ELSE IF type = "emotional"
       THEN <<"Emotional Recognition", "Coping Skills", "Empathy",
              "Self-Awareness">>
    ELSE IF type = "motor"
       THEN <<"Fine Motor", "Gross Motor", "Coordination", "Balance">>
    ELSE <<"Skill 1", "Skill 2", "Skill 3", "Skill 4">>

\* Faulty variant of SkillObservation: the value is not capped at 100.
SkillObservationUncapped(index, i, rand) ==
    (10 * (40 + index * 5 + i * 6) + rand - 50 + 5) \div 10

\* Math.round(Math.min(100, baseStart + i * 6 + (Math.random() * 10 - 5)))
\* with baseStart = 40 + index * 5, computed in tenths.
SkillObservation(index, i, rand) ==
    LET progress == 10 * (40 + index * 5 + i * 6) + rand - 50
        capped == IF progress < 1000 THEN progress ELSE 1000
    IN  (capped + 5) \div 10

\* calculateSkillProgress(therapyType, sessions): the skills object, as the
\* sequence of its entries in insertion order.
calculateSkillProgress(type, sessions, rand) ==
    [k \in 1..4 |->
        [name |-> SkillNames(type)[k],
         progressData |-> [j \in 1..8 |-> SkillObservation(k - 1, j - 1, rand)]]]

\* Faulty variant of LoadedProgress: generated sessions also replace a
\* single stored session.
LoadedProgressSamplesSparse(docs, weekly, today, rand, parses) ==
    LET sessionsData ==
            IF Len(docs) <= 1
               THEN generateSampleProgressData(child, SampleDays, rand)
               ELSE docs
    IN  [sessions |-> sessionsData,
         summaryAt |-> today,
         weeklySummary |->
             IF weekly
                THEN generateWeeklySummary(sessionsData, today, rand[0],
                                           parses)
                ELSE <<>>,
         skillProgress |->
             calculateSkillProgress(currentTherapyType, sessionsData,
                                    rand[0])]

\* The data a consumer holds once its session query is answered with
\* `docs`: the stored sessions, or generated ones when there is none.
\* rand are the Math.random() draws of the call; summaryAt records the
\* instant of the weekly summary.
LoadedProgress(docs, weekly, today, rand, parses) ==
    LET sessionsData ==
            IF Len(docs) = 0
               THEN generateSampleProgressData(child, SampleDays, rand)
               ELSE docs
    IN  [sessions |-> sessionsData,
         summaryAt |-> today,
         weeklySummary |->
             IF weekly
                THEN generateWeeklySummary(sessionsData, today, rand[0],
                                           parses)
                       ELSE <<>>,
         skillProgress |->
             calculateSkillProgress(currentTherapyType, sessionsData,
                                    rand[0])]

\* The Math.random() draws of one load: those of the sample generation when
\* there is no stored session; the first one also serves the weekly summary
\* and the skill curves.
LoadDraws ==
    IF therapySessions = <<>>
       THEN SampleDraws(SampleDays)
       ELSE {[i \in 0..(SampleDays - 1) |-> a] : a \in RandValues}

\* ProgressDashboard.loadProgress from its session query on: setSessions,
\* setWeeklySummary, setSkillProgress.  A rejected query is logged only.
ProgressDashboard_loadSessions ==
    /\ \E ok \in BOOLEAN :
          IF ok
             THEN \E rand \in LoadDraws, today \in SummaryTimes,
                     parses \in BOOLEAN :
                     progressView' =
                         [progressView EXCEPT
                             !["ProgressDashboard"] =
                                 LoadedProgress(therapySessions, TRUE, today,
                                                rand, parses)]
             ELSE progressView' = progressView
    /\ UNCHANGED <<therapySessions, currentTherapyType, days, sample>>
    /\ UNCHANGED <<pipelineVars, childrenVars, consumerVars, viewVars, loadVars>>

\* TreatmentPlanView.loadProgressData(childId, therapyType): setSessions,
\* setSkillProgress.
TreatmentPlanView_loadProgressData ==
    /\ \E ok \in BOOLEAN :
          IF ok
             THEN \E rand \in LoadDraws :
                     progressView' =
                         [progressView EXCEPT
                             !["TreatmentPlanView"] =
                                 LoadedProgress(therapySessions, FALSE, Today,
                                                rand, FALSE)]
             ELSE progressView' = progressView
    /\ UNCHANGED <<therapySessions, currentTherapyType, days, sample>>
    /\ UNCHANGED <<pipelineVars, childrenVars, consumerVars, viewVars, loadVars>>

\* ProgressDashboard's render: completedCount and completionRate.
ProgressDashboard_completionRate ==
    LET sessions == progressView["ProgressDashboard"].sessions IN
    CompletionRate(Cardinality({k \in DOMAIN sessions :
                                   sessions[k].completed}),
                   Len(sessions))

\* TreatmentPlanView's progress section, rendered when sessions.length > 0:
\* the rate it shows (<<>> when the section is not rendered).
TreatmentPlanView_completionRate ==
    LET sessions == progressView["TreatmentPlanView"].sessions IN
    IF Len(sessions) > 0
       THEN <<(200 * Cardinality({k \in DOMAIN sessions :
                                     sessions[k].completed})
                  + Len(sessions)) \div (2 * Len(sessions))>>
       ELSE <<>>

ProgressNext ==
    \/ ProgressDashboard_loadSessions
    \/ TreatmentPlanView_loadProgressData

\* The inputs of the consumers: any stored sessions of a behavior plan, and
\* any therapy type with no session stored.
ProgressInputs ==
    (SeqsUpTo(SessionValues, MaxSessions) \X {"behavior"})
        \cup ({<<>>} \X (TherapyTypes \cup {"physical"}))

\* The sessions stored for the child and the therapy type of its current
\* plan, as the consumers find them.
ProgressInit ==
    /\ PipelineIdle
    /\ ChildrenIdle
    /\ ConsumersIdle
    /\ \E input \in ProgressInputs :
          /\ therapySessions = input[1]
          /\ currentTherapyType = input[2]
    /\ progressView = [c \in ProgressConsumers |-> IdleProgress]
    /\ days = SampleDays
    /\ sample = <<>>
    /\ ViewsIdle

SpecProgress == ProgressInit /\ [][ProgressNext]_vars

\* ------------------------------------------------------------------------
\* Claims on the progress analytics.

\* C14: generateSampleProgressData is called exactly when the fetched
\* session list is empty; when a stored session exists, the consumer
\* aggregates and displays exactly the fetched sessions; the sequence handed
\* to the aggregation functions is never empty.
C14_SampleOnlyWhenNoRealSessions ==
    \A c \in ProgressConsumers :
        progressView[c].skillProgress # <<>> =>
            /\ progressView[c].sessions # <<>>
            /\ therapySessions # <<>> =>
                  progressView[c].sessions = therapySessions
            /\ therapySessions = <<>> =>
                  /\ Len(progressView[c].sessions) = SampleDays
                  /\ \A k \in DOMAIN progressView[c].sessions :
                        progressView[c].sessions[k].id[1] = "session"

\* Both consumers hold the stored sessions of a child that has some.
C14_Witness ==
    /\ Len(therapySessions) = 1
    /\ \A c \in ProgressConsumers :
          /\ progressView[c].skillProgress # <<>>
          /\ progressView[c].sessions = therapySessions

\* C15: every completion rate (overall in ProgressDashboard and
\* TreatmentPlanView, per bucket of the weekly summary) is completed/total
\* rounded to the nearest integer percent, 0 when total is 0, and 100 when
\* total > 0 and every record is completed.
C15_CompletionRateRounded ==
    LET Nearest(rate, completed, total) ==
            /\ total = 0 => rate = 0
            /\ total > 0 =>
                  /\ 2 * (rate * total - 100 * completed) <= total
                  /\ 2 * (100 * completed - rate * total) <= total
            /\ (total > 0 /\ completed = total) => rate = 100
        Completed(sessions) ==
            Cardinality({k \in DOMAIN sessions : sessions[k].completed})
        dashboard == progressView["ProgressDashboard"]
        view == progressView["TreatmentPlanView"]
    IN  /\ Nearest(ProgressDashboard_completionRate,
                   Completed(dashboard.sessions), Len(dashboard.sessions))
        /\ TreatmentPlanView_completionRate # <<>> =>
              Nearest(TreatmentPlanView_completionRate[1],
                      Completed(view.sessions), Len(view.sessions))
        /\ \A k \in DOMAIN dashboard.weeklySummary :
              Nearest(dashboard.weeklySummary[k].completionRate,
                      dashboard.weeklySummary[k].tasksCompleted,
                      dashboard.weeklySummary[k].totalTasks)

\* 13 of 14 sessions are completed and ProgressDashboard shows 93 %; a week
\* whose 7 sessions are all completed shows 100 %.
C15_Witness ==
    /\ Len(progressView["ProgressDashboard"].sessions) = 14
    /\ ProgressDashboard_completionRate = 93
    /\ \E k \in DOMAIN progressView["ProgressDashboard"].weeklySummary :
          /\ progressView["ProgressDashboard"].weeklySummary[k].totalTasks = 7
          /\ progressView["ProgressDashboard"].weeklySummary[k].completionRate
                = 100

\* C16: the weekly summary has four buckets, oldest first; the last
\* bucket's window ends at the evaluation time, consecutive windows leave no
\* instant between them, and every session completed within the 28 days
\* ending at the evaluation time is counted in exactly one bucket.
C16_FourWeeksEndingToday ==
    LET dashboard == progressView["ProgressDashboard"]
        weeks == dashboard.weeklySummary
        recent == {k \in DOMAIN dashboard.sessions :
                      /\ dashboard.sessions[k].completedAt
                            > DaysBefore(dashboard.summaryAt, 28)
                      /\ dashboard.sessions[k].completedAt
                            <= dashboard.summaryAt}
    IN  weeks # <<>> =>
            /\ Len(weeks) = 4
            /\ \A k \in 1..3 : weeks[k].weekStart < weeks[k + 1].weekStart
            /\ weeks[4].weekEnd = dashboard.summaryAt
            /\ \A k \in 1..3 : weeks[k + 1].weekStart <= weeks[k].weekEnd + 1
            /\ weeks[1].totalTasks + weeks[2].totalTasks
                  + weeks[3].totalTasks + weeks[4].totalTasks
                  = Cardinality(recent)

\* C17: a session is counted in a bucket exactly when weekStart <=
\* completedAt <= weekEnd of the bucket (bounds included), and no session is
\* counted in more than one bucket.
C17_CountedIffWithinWindow ==
    LET dashboard == progressView["ProgressDashboard"]
        weeks == dashboard.weeklySummary
        Within(k, b) ==
            /\ weeks[b].weekStart <= dashboard.sessions[k].completedAt
            /\ dashboard.sessions[k].completedAt <= weeks[b].weekEnd
    IN  /\ \A b \in DOMAIN weeks :
              weeks[b].totalTasks
                  = Cardinality({k \in DOMAIN dashboard.sessions :
                                    Within(k, b)})
        /\ \A k \in DOMAIN dashboard.sessions :
              Cardinality({b \in DOMAIN weeks : Within(k, b)}) <= 1

\* C20: for a therapy type of {speech, behavior, emotional, motor},
\* calculateSkillProgress returns 4 named curves (for motor: Fine Motor,
\* Gross Motor, Coordination, Balance), each of 8 integer observations
\* within [0, 100].
C20_FourCurvesOfEightPercentages ==
    \A c \in ProgressConsumers :
        LET skills == progressView[c].skillProgress IN
        (skills # <<>> /\ currentTherapyType \in TherapyTypes) =>
            /\ Len(skills) = 4
            /\ \A j, k \in DOMAIN skills :
                  j # k => skills[j].name # skills[k].name
            /\ \A k \in DOMAIN skills :
                  skills[k].name \notin {"Skill 1", "Skill 2", "Skill 3",
                                         "Skill 4"}
            /\ currentTherapyType = "motor" =>
                  [k \in DOMAIN skills |-> skills[k].name]
                      = <<"Fine Motor", "Gross Motor", "Coordination",
                          "Balance">>
            /\ \A k \in DOMAIN skills :
                  /\ Len(skills[k].progressData) = 8
                  /\ \A j \in 1..8 : skills[k].progressData[j] \in 0..100

\* The motor curves are loaded and the last observation of Balance is at
\* the cap.
C20_Witness ==
    /\ currentTherapyType = "motor"
    /\ Len(progressView["ProgressDashboard"].skillProgress) = 4
    /\ progressView["ProgressDashboard"].skillProgress[4].name = "Balance"
    /\ progressView["ProgressDashboard"].skillProgress[4].progressData[8]
          = 100

\* A call generateSampleProgressData(childId, n).
generateSampleProgressDataCall ==
    /\ \E childId \in ChildIds, n \in 1..MaxDays :
          /\ days' = n
          /\ \E rand \in SampleDraws(n) :
                sample' = generateSampleProgressData(childId, n, rand)
    /\ UNCHANGED <<therapySessions, currentTherapyType, progressView>>
    /\ UNCHANGED <<pipelineVars, childrenVars, consumerVars, viewVars, loadVars>>

SampleInit ==
    PipelineIdle /\ ChildrenIdle /\ ConsumersIdle /\ AnalyticsIdle /\ ViewsIdle

SpecSample == SampleInit /\ [][generateSampleProgressDataCall]_vars

\* C18: in the returned sequence (oldest first) the completion probability
\* of the record at position p is non-decreasing in p, and so is its
\* feedback band (early, middle, late): the late band is nearest today.
\* The loop index of a record is the last part of its id.
C18_ImprovesTowardToday ==
    LET Chance(p) == 50 * days + 40 * sample[p].id[3]
        Band(p) == IF 10 * sample[p].id[3] > 7 * days THEN 2
                   ELSE IF 10 * sample[p].id[3] > 4 * days THEN 1 ELSE 0
    IN  \A p, q \in DOMAIN sample :
            p < q => (Chance(p) <= Chance(q) /\ Band(p) <= Band(q))

\* C19: generateSampleProgressData(childId, N) returns N records, oldest
\* first with completedAt strictly increasing by position, and with pairwise
\* distinct ids.
C19_SampleOrderedAndDistinct ==
    sample # <<>> =>
        /\ Len(sample) = days
        /\ \A p, q \in DOMAIN sample :
              p < q => /\ sample[p].completedAt < sample[q].completedAt
                       /\ sample[p].id # sample[q].id

\* 14 records were generated; the first is 13 days older than the last.
C19_Witness ==
    /\ days = 14
    /\ Len(sample) = 14
    /\ sample[1].completedAt = DaysBefore(sample[14].completedAt, 13)

\* ------------------------------------------- weekly goals in the views
\* The longest weeklyGoals list of a shown plan.
MaxGoalItems == 3

\* JavaScript null.
Null == "null"

\* The weekly goals a stored plan may hold: tagged objects and legacy
\* strings (a legacy string s is held as [tagged |-> FALSE, goal |-> s]).
StoredGoalValues ==
    WeeklyGoalValues \cup BareGoalValues
        \cup {[tagged |-> TRUE, goal |-> "k", category |-> "speech"]}

\* The faulty variant: the category is read without the format test.
GoalItemOwnCategory(goal) ==
    [tagged |-> TRUE, goal |-> goal.goal, category |-> goal.category]

\* One iteration of weeklyGoals.map in the two views: isNewFormat is
\* typeof goal === 'object' && 'goal' in goal; goalText is goal.goal or the
\* string itself; category is goal.category or null.  The item is written
\* as the object {goal: goalText, category}.
GoalItem(goal) ==
    LET isNewFormat == goal.tagged
        goalText == IF isNewFormat THEN goal.goal ELSE goal.goal
        category == IF isNewFormat THEN goal.category ELSE Null
    IN  [tagged |-> TRUE, goal |-> goalText, category |-> category]

\* weeklyGoals.map(...): one item per goal, in order.
NormalizeGoals(weeklyGoals) ==
    [k \in DOMAIN weeklyGoals |-> GoalItem(weeklyGoals[k])]

\* The goal tag under a task of DailyTasks: weeklyGoals[weeklyGoalIndex]
\* is undefined when the index is outside the list; an object shows its
\* goal, anything else is shown as it is.
GoalTag(weeklyGoals, weeklyGoalIndex) ==
    IF weeklyGoalIndex + 1 \in DOMAIN weeklyGoals
    THEN LET goal == weeklyGoals[weeklyGoalIndex + 1]
         IN  IF goal.tagged THEN goal.goal ELSE goal.goal
    ELSE Absent

\* The tasks of the shown plans of SpecGoals: one per goal position.
GoalViewTasks ==
    [k \in 1..MaxGoalItems |->
        [title |-> "t", description |-> "d", whyItMatters |-> "w",
         weeklyGoalIndex |-> k - 1]]

\* TreatmentPlanView renders the weekly goals section.
TreatmentPlanView_renderGoals ==
    /\ treatmentPlan # <<>>
    /\ treatmentPlan[1].weeklyGoals # <<>>
    /\ goalItems["TreatmentPlanView"] = <<>>
    /\ goalItems' =
          [goalItems EXCEPT !["TreatmentPlanView"] =
              NormalizeGoals(treatmentPlan[1].weeklyGoals)]
    /\ UNCHANGED <<treatmentPlan, goalTags, icsContent, uploadingVideoFor,
                   uploads>>
    /\ UNCHANGED <<pipelineVars, childrenVars, consumerVars, analyticsVars,
                   loadVars>>

\* DailyTasks renders the weekly goals list and the goal tag of each task.
DailyTasks_renderGoals ==
    /\ treatmentPlan # <<>>
    /\ goalTags = <<>>
    /\ goalItems' =
          [goalItems EXCEPT !["DailyTasks"] =
              NormalizeGoals(treatmentPlan[1].weeklyGoals)]
    /\ goalTags' =
          [k \in DOMAIN treatmentPlan[1].dailyTasks |->
              GoalTag(treatmentPlan[1].weeklyGoals,
                      treatmentPlan[1].dailyTasks[k].weeklyGoalIndex)]
    /\ UNCHANGED <<treatmentPlan, icsContent, uploadingVideoFor, uploads>>
    /\ UNCHANGED <<pipelineVars, childrenVars, consumerVars, analyticsVars,
                   loadVars>>

GoalsNext == TreatmentPlanView_renderGoals \/ DailyTasks_renderGoals

\* A plan with any list of stored goals is shown; nothing is rendered yet.
GoalsInit ==
    /\ PipelineIdle /\ ChildrenIdle /\ ConsumersIdle /\ AnalyticsIdle
    /\ \E weeklyGoals \in SeqsUpTo(StoredGoalValues, MaxGoalItems) :
          treatmentPlan =
              <<[weeklyGoals |-> weeklyGoals, dailyTasks |-> GoalViewTasks]>>
    /\ goalItems = [c \in GoalConsumers |-> <<>>]
    /\ goalTags = <<>>
    /\ icsContent = <<>>
    /\ uploadingVideoFor = <<>>
    /\ uploads = <<>>
    /\ selectedChild = [c \in LoadConsumers |-> ""]
    /\ childrenQuery = [c \in LoadConsumers |-> "idle"]
    /\ loads = [c \in LoadConsumers |-> [k \in DOMAIN LoadChildIds |-> 0]]
    /\ shown = [c \in LoadConsumers |-> NothingShown]
    /\ loading = [c \in LoadConsumers |-> FALSE]

SpecGoals == GoalsInit /\ [][GoalsNext]_vars

\* C21: what a view rendered for the weekly goals has one item per stored
\* goal, in order; a legacy string gives its own text with a null
\* category, a tagged object its own goal and category; normalizing the
\* rendered items again changes nothing; and the goal tag of a task whose
\* index is inside the list is the text of that goal.
C21_GoalsNormalized ==
    /\ \A c \in GoalConsumers :
          goalItems[c] # <<>> =>
              LET goals == treatmentPlan[1].weeklyGoals
                  items == goalItems[c]
              IN  /\ Len(items) = Len(goals)
                  /\ \A k \in DOMAIN goals :
                        /\ items[k].goal = goals[k].goal
                        /\ ~goals[k].tagged => items[k].category = Null
                        /\ goals[k].tagged =>
                              items[k].category = goals[k].category
                  /\ [k \in DOMAIN items |-> GoalItem(items[k])] = items
    /\ \A k \in DOMAIN goalTags :
          LET goals == treatmentPlan[1].weeklyGoals
              index == treatmentPlan[1].dailyTasks[k].weeklyGoalIndex
          IN  index < Len(goals) => goalTags[k] = goals[index + 1].goal

\* Both views rendered a plan whose goals are a tagged object, a legacy
\* string and another tagged object.
C21_Witness ==
    /\ Len(goalItems["TreatmentPlanView"]) = 3
    /\ goalItems["DailyTasks"] = goalItems["TreatmentPlanView"]
    /\ goalItems["DailyTasks"][1].category = "motor"
    /\ ~treatmentPlan[1].weeklyGoals[2].tagged
    /\ goalItems["DailyTasks"][2] =
          [tagged |-> TRUE, goal |-> "h", category |-> Null]
    /\ goalItems["DailyTasks"][3].category = "speech"
    /\ goalTags = <<"g", "h", "k">>

\* ------------------------------------------------------ downloadICalendar
\* The longest dailyTasks list of a plan whose calendar is downloaded.
MaxCalendarTasks == 3

\* Instants of this section are hours of the client clock.
HoursPerDay == 24

\* new Date() of a download: midnight, the morning and the last hour of
\* a day.
DownloadTimes ==
    {30 * HoursPerDay, 30 * HoursPerDay + 9, 30 * HoursPerDay + 23}

\* The daily tasks of a shown plan: single-line texts, ids as handleSubmit
\* writes them.
CalendarTasks(titles) ==
    [k \in DOMAIN titles |->
        [id |-> <<"task", 1, k - 1>>, title |-> titles[k],
         description |-> "d", whyItMatters |-> "w"]]

\* formatDate: toISOString() without punctuation and milliseconds, as its
\* date part and its time part.
FormatDate(date) == <<date \div HoursPerDay, date % HoursPerDay>>

\* One content line NAME:value, the value as the parts of its template.
Line(name, value) == [name |-> name, value |-> value]

\* The faulty variant: every event starts at the time of the download.
EventLinesSameDay(task, index, at) ==
    <<Line("BEGIN", <<"VEVENT">>),
      Line("UID", <<"task-", task.id, "@mediminds.com">>),
      Line("DTSTAMP", FormatDate(at)),
      Line("DTSTART", FormatDate(at)),
      Line("DTEND", FormatDate(at + 1)),
      Line("SUMMARY", <<task.title>>),
      Line("DESCRIPTION",
           <<task.description, "\\n\\nWhy it matters: ",
             task.whyItMatters>>),
      Line("BEGIN", <<"VALARM">>),
      Line("TRIGGER", <<"-PT30M">>),
      Line("ACTION", <<"DISPLAY">>),
      Line("DESCRIPTION", <<"Reminder: ", task.title>>),
      Line("END", <<"VALARM">>),
      Line("END", <<"VEVENT">>)>>

\* One iteration of dailyTasks.forEach: startDate is index days after
\* new Date(), endDate one hour later.
EventLines(task, index, at) ==
    LET startDate == at + index * HoursPerDay
        endDate == startDate + 1
    IN  <<Line("BEGIN", <<"VEVENT">>),
          Line("UID", <<"task-", task.id, "@mediminds.com">>),
          Line("DTSTAMP", FormatDate(at)),
          Line("DTSTART", FormatDate(startDate)),
          Line("DTEND", FormatDate(endDate)),
          Line("SUMMARY", <<task.title>>),
          Line("DESCRIPTION",
               <<task.description, "\\n\\nWhy it matters: ",
                 task.whyItMatters>>),
          Line("BEGIN", <<"VALARM">>),
          Line("TRIGGER", <<"-PT30M">>),
          Line("ACTION", <<"DISPLAY">>),
          Line("DESCRIPTION", <<"Reminder: ", task.title>>),
          Line("END", <<"VALARM">>),
          Line("END", <<"VEVENT">>)>>

\* dailyTasks.forEach from position index on.
RECURSIVE CalendarEvents(_, _, _)
CalendarEvents(dailyTasks, index, at) ==
    IF index >= Len(dailyTasks) THEN <<>>
    ELSE EventLines(dailyTasks[index + 1], index, at)
            \o CalendarEvents(dailyTasks, index + 1, at)

\* DailyTasks.downloadICalendar: nothing without a plan; else the header,
\* the events and the footer.
downloadICalendar ==
    /\ IF treatmentPlan = <<>>
       THEN icsContent' = icsContent
       ELSE \E at \in DownloadTimes :
               icsContent' =
                   <<Line("BEGIN", <<"VCALENDAR">>),
                     Line("VERSION", <<"2.0">>),
                     Line("PRODID", <<"-//MediMinds//Therapy Tasks//EN">>)>>
                   \o CalendarEvents(treatmentPlan[1].dailyTasks, 0, at)
                   \o <<Line("END", <<"VCALENDAR">>)>>
    /\ UNCHANGED <<treatmentPlan, goalItems, goalTags, uploadingVideoFor,
                   uploads>>
    /\ UNCHANGED <<pipelineVars, childrenVars, consumerVars, analyticsVars,
                   loadVars>>

\* No plan, or a plan with any list of tasks, is shown.
CalendarInit ==
    /\ PipelineIdle /\ ChildrenIdle /\ ConsumersIdle /\ AnalyticsIdle
    /\ \/ treatmentPlan = <<>>
       \/ \E titles \in SeqsUpTo({"t", "u", "v"}, MaxCalendarTasks) :
             treatmentPlan =
                 <<[weeklyGoals |-> <<>>,
                    dailyTasks |-> CalendarTasks(titles)]>>
    /\ goalItems = [c \in GoalConsumers |-> <<>>]
    /\ goalTags = <<>>
    /\ icsContent = <<>>
    /\ uploadingVideoFor = <<>>
    /\ uploads = <<>>
    /\ selectedChild = [c \in LoadConsumers |-> ""]
    /\ childrenQuery = [c \in LoadConsumers |-> "idle"]
    /\ loads = [c \in LoadConsumers |-> [k \in DOMAIN LoadChildIds |-> 0]]
    /\ shown = [c \in LoadConsumers |-> NothingShown]
    /\ loading = [c \in LoadConsumers |-> FALSE]

SpecCalendar == CalendarInit /\ [][downloadICalendar]_vars

\* C23: the downloaded file holds as many VEVENT blocks as the plan has
\* daily tasks; the i-th block (from 0) carries the id and title of the
\* i-th task and starts i days after the time of the download (its
\* DTSTAMP), at the same time of day; and each block holds exactly one
\* VALARM and exactly one TRIGGER, which is -PT30M.
C23_OneEventPerTaskWithAlarm ==
    icsContent # <<>> =>
        LET dailyTasks == treatmentPlan[1].dailyTasks
            Is(p, name, word) ==
                icsContent[p].name = name /\ icsContent[p].value = <<word>>
            Begins == {p \in DOMAIN icsContent : Is(p, "BEGIN", "VEVENT")}
            Ends == {p \in DOMAIN icsContent : Is(p, "END", "VEVENT")}
            Nth(i) ==
                CHOOSE p \in Begins :
                    Cardinality({q \in Begins : q <= p}) = i
            EndOf(p) ==
                CHOOSE e \in Ends :
                    e > p /\ \A f \in Ends : f > p => e <= f
            Block(i) == Nth(i)..EndOf(Nth(i))
            Field(i, name) == {p \in Block(i) : icsContent[p].name = name}
        IN  /\ Cardinality(Begins) = Len(dailyTasks)
            /\ Cardinality(Ends) = Len(dailyTasks)
            /\ \A i \in DOMAIN dailyTasks :
                  /\ \E p \in Block(i) :
                        icsContent[p] =
                            Line("SUMMARY", <<dailyTasks[i].title>>)
                  /\ \E p \in Block(i) :
                        icsContent[p] =
                            Line("UID", <<"task-", dailyTasks[i].id,
                                          "@mediminds.com">>)
                  /\ Cardinality(Field(i, "DTSTART")) = 1
                  /\ Cardinality(Field(i, "DTSTAMP")) = 1
                  /\ \A p \in Field(i, "DTSTART"), q \in Field(i, "DTSTAMP") :
                        icsContent[p].value =
                            <<icsContent[q].value[1] + (i - 1),
                              icsContent[q].value[2]>>
                  /\ Cardinality({p \in Block(i) :
                                    Is(p, "BEGIN", "VALARM")}) = 1
                  /\ Cardinality({p \in Block(i) :
                                    Is(p, "END", "VALARM")}) = 1
                  /\ Cardinality(Field(i, "TRIGGER")) = 1
                  /\ \A p \in Field(i, "TRIGGER") :
                        icsContent[p].value = <<"-PT30M">>

\* The calendar of a plan with three tasks was downloaded in the last hour
\* of day 30: the third event starts on day 32 and ends on day 33.
C23_Witness ==
    /\ treatmentPlan # <<>>
    /\ Len(treatmentPlan[1].dailyTasks) = 3
    /\ Len(icsContent) = 43
    /\ icsContent[33] = Line("DTSTART", <<32, 23>>)
    /\ icsContent[34] = Line("DTEND", <<33, 0>>)
    /\ icsContent[35] = Line("SUMMARY", <<treatmentPlan[1].dailyTasks[3].title>>)
    /\ icsContent[38] = Line("TRIGGER", <<"-PT30M">>)

\* ------------------------------------------- demo videos of a plan's tasks
\* The longest dailyTasks list of a plan shown in TreatmentPlanView.
MaxVideoTasks == 3

\* The daily tasks of a stored plan: no demoVideoUrl is ever persisted.
VideoTasks(n) ==
    [k \in 1..n |->
        [id |-> <<"task", 1, k - 1>>, title |-> "t", description |-> "d",
         whyItMatters |-> "w", demoVideoSuggestion |-> "v",
         demoVideoUrl |-> Absent]]

\* The upload button of a task without a video: setUploadingVideoFor(id).
\* The button is shown while another task's VideoUpload is open.
TreatmentPlanView_showVideoUpload(k) ==
    /\ treatmentPlan # <<>>
    /\ treatmentPlan[1].dailyTasks[k].demoVideoUrl = Absent
    /\ uploadingVideoFor # <<treatmentPlan[1].dailyTasks[k].id>>
    /\ uploadingVideoFor' = <<treatmentPlan[1].dailyTasks[k].id>>
    /\ UNCHANGED <<treatmentPlan, goalItems, goalTags, icsContent, uploads>>
    /\ UNCHANGED <<pipelineVars, childrenVars, consumerVars, analyticsVars,
                   loadVars>>

\* VideoUpload.handleUpload of the open VideoUpload, a file being chosen:
\* it suspends at uploadBytes.  Its onVideoUploaded prop is the arrow of
\* the render in which it was clicked, which closes over that render's
\* treatmentPlan.  One call per task is followed at a time.
VideoUpload_handleUpload(k) ==
    /\ treatmentPlan # <<>>
    /\ treatmentPlan[1].dailyTasks[k].demoVideoUrl = Absent
    /\ uploadingVideoFor = <<treatmentPlan[1].dailyTasks[k].id>>
    /\ uploads[k] = <<>>
    /\ uploads' = [uploads EXCEPT ![k] = <<treatmentPlan>>]
    /\ UNCHANGED <<treatmentPlan, goalItems, goalTags, icsContent,
                   uploadingVideoFor>>
    /\ UNCHANGED <<pipelineVars, childrenVars, consumerVars, analyticsVars,
                   loadVars>>

\* dailyTasks.map of handleVideoUploaded: the task with the id gets the url.
UpdatedTasks(dailyTasks, taskId, url) ==
    [j \in DOMAIN dailyTasks |->
        IF dailyTasks[j].id = taskId
        THEN [dailyTasks[j] EXCEPT !.demoVideoUrl = url]
        ELSE dailyTasks[j]]

\* TreatmentPlanView.handleVideoUploaded(taskId, url) of the render whose
\* treatmentPlan is `closed`: setTreatmentPlan({...treatmentPlan,
\* dailyTasks: updatedTasks}) when that plan is not null, and
\* setUploadingVideoFor(null).
handleVideoUploaded(closed, taskId, url) ==
    /\ treatmentPlan' =
          IF closed # <<>>
          THEN <<[closed[1] EXCEPT
                    !.dailyTasks = UpdatedTasks(@, taskId, url)]>>
          ELSE treatmentPlan
    /\ uploadingVideoFor' = <<>>

\* uploadBytes and getDownloadURL of handleUpload settle: onVideoUploaded
\* (videoUrl) when both resolved, an alert when one rejected.
VideoUpload_uploadSettles(k) ==
    /\ uploads[k] # <<>>
    /\ uploads' = [uploads EXCEPT ![k] = <<>>]
    /\ \/ handleVideoUploaded(uploads[k][1],
                              uploads[k][1][1].dailyTasks[k].id, "url")
       \/ UNCHANGED <<treatmentPlan, uploadingVideoFor>>
    /\ UNCHANGED <<goalItems, goalTags, icsContent>>
    /\ UNCHANGED <<pipelineVars, childrenVars, consumerVars, analyticsVars,
                   loadVars>>

VideoNext ==
    \E k \in 1..MaxVideoTasks :
        /\ k \in DOMAIN uploads
        /\ \/ TreatmentPlanView_showVideoUpload(k)
           \/ VideoUpload_handleUpload(k)
           \/ VideoUpload_uploadSettles(k)

\* TreatmentPlanView shows a loaded plan; no VideoUpload is open.
VideoInit ==
    /\ PipelineIdle /\ ChildrenIdle /\ ConsumersIdle /\ AnalyticsIdle
    /\ \E n \in 1..MaxVideoTasks :
          /\ treatmentPlan =
                <<[weeklyGoals |-> <<>>, dailyTasks |-> VideoTasks(n)]>>
          /\ uploads = [k \in 1..n |-> <<>>]
    /\ goalItems = [c \in GoalConsumers |-> <<>>]
    /\ goalTags = <<>>
    /\ icsContent = <<>>
    /\ uploadingVideoFor = <<>>
    /\ selectedChild = [c \in LoadConsumers |-> ""]
    /\ childrenQuery = [c \in LoadConsumers |-> "idle"]
    /\ loads = [c \in LoadConsumers |-> [k \in DOMAIN LoadChildIds |-> 0]]
    /\ shown = [c \in LoadConsumers |-> NothingShown]
    /\ loading = [c \in LoadConsumers |-> FALSE]

SpecVideo == VideoInit /\ [][VideoNext]_vars

\* C30: a step in which the upload for task k settles either reports a
\* failure and leaves the plan and uploadingVideoFor alone, or is
\* handleVideoUploaded(id of k, url): afterwards task k has the url and is
\* otherwise as before, every other task and every other field of the
\* plan is as before, and uploadingVideoFor is null.
C30_OnlyTheMatchingTaskChanges ==
    [][\A k \in DOMAIN uploads :
          (uploads[k] # <<>> /\ uploads'[k] = <<>>) =>
              \/ /\ treatmentPlan' = treatmentPlan
                 /\ uploadingVideoFor' = uploadingVideoFor
              \/ /\ uploadingVideoFor' = <<>>
                 /\ treatmentPlan'[1].dailyTasks[k].demoVideoUrl = "url"
                 /\ treatmentPlan' =
                       <<[treatmentPlan[1] EXCEPT
                            !.dailyTasks[k].demoVideoUrl = "url"]>>]_vars

\* ------------------------------------------ loads of the selected child
\* The positions of the parent's children.
LoadChildren == DOMAIN LoadChildIds

\* loads[c][k]: 0 when no load for child k was started or the last one was
\* rejected, the number of the await at which the load is suspended while
\* it is in flight, LoadDone when the last one ran to its end.
LoadDone == 4

\* The awaits of a load: getDocs of the plans in DailyTasks; getDocs of the
\* plans, getDocs of the sessions and generateProgressInsights in
\* ProgressDashboard.
LastAwait(c) == IF c = "DailyTasks" THEN 1 ELSE 3

\* A load is suspended at one of its awaits.
LoadInFlight(c) == \E k \in LoadChildren : loads[c][k] \in 1..3

\* setSelectedChild(child) followed by the effect on [selectedChild]:
\* loadProgress(child.id) / loadTreatmentPlan(child.id) is called and runs
\* to its first await, after setLoading(true).  Nothing cancels the loads
\* already in flight.  Two loads for the same child are followed as one.
Select(c, k) ==
    /\ selectedChild' = [selectedChild EXCEPT ![c] = LoadChildIds[k]]
    /\ loads' = [loads EXCEPT ![c][k] = 1]
    /\ loading' = [loading EXCEPT ![c] = TRUE]

\* loadChildren's query settles: setSelectedChild(childrenData[0]) when it
\* resolved, nothing when it rejected.
loadChildrenSettles(c) ==
    /\ childrenQuery[c] = "pending"
    /\ \/ /\ childrenQuery' = [childrenQuery EXCEPT ![c] = "resolved"]
          /\ Select(c, 1)
       \/ /\ childrenQuery' = [childrenQuery EXCEPT ![c] = "rejected"]
          /\ UNCHANGED <<selectedChild, loads, loading>>
    /\ UNCHANGED <<shown, viewVars>>
    /\ UNCHANGED <<pipelineVars, childrenVars, consumerVars, analyticsVars>>

\* The child selector's onChange.  The selector is rendered once the
\* children are loaded and while loading is false.
selectChild(c, k) ==
    /\ childrenQuery[c] = "resolved"
    /\ ~loading[c]
    /\ selectedChild[c] # LoadChildIds[k]
    /\ Select(c, k)
    /\ UNCHANGED <<childrenQuery, shown, viewVars>>
    /\ UNCHANGED <<pipelineVars, childrenVars, consumerVars, analyticsVars>>

\* What a resolved await of a load for `id` sets: DailyTasks
\* setTreatmentPlan(plans[0]) or (null); ProgressDashboard setTherapyType
\* when the child has a plan, then setSessions, setWeeklySummary and
\* setSkillProgress, then setInsights.
Shows(c, await, id, hasPlan) ==
    IF c = "DailyTasks" THEN [shown[c] EXCEPT !.plan = id]
    ELSE IF await = 1
         THEN [shown[c] EXCEPT !.plan = IF hasPlan THEN id ELSE @]
    ELSE IF await = 2 THEN [shown[c] EXCEPT !.sessions = id]
    ELSE [shown[c] EXCEPT !.insights = id]

\* An await of the load for child k settles.  Resolved: the state is set
\* and the load goes on to its next await or ends.  Rejected: the catch
\* block.  finally: setLoading(false).
loadSettles(c, k) ==
    /\ loads[c][k] \in 1..3
    /\ \/ \E hasPlan \in BOOLEAN :
             /\ shown' =
                   [shown EXCEPT
                      ![c] = Shows(c, loads[c][k], LoadChildIds[k], hasPlan)]
             /\ IF loads[c][k] = LastAwait(c)
                THEN /\ loads' = [loads EXCEPT ![c][k] = LoadDone]
                     /\ loading' = [loading EXCEPT ![c] = FALSE]
                ELSE /\ loads' = [loads EXCEPT ![c][k] = @ + 1]
                     /\ loading' = loading
       \/ /\ loads' = [loads EXCEPT ![c][k] = 0]
          /\ loading' = [loading EXCEPT ![c] = FALSE]
          /\ shown' = shown
    /\ UNCHANGED <<selectedChild, childrenQuery, viewVars>>
    /\ UNCHANGED <<pipelineVars, childrenVars, consumerVars, analyticsVars>>

LoadsNext ==
    \E c \in LoadConsumers :
        \/ loadChildrenSettles(c)
        \/ \E k \in LoadChildren : selectChild(c, k) \/ loadSettles(c, k)

\* One of the two tabs is mounted and loadChildren awaits its query.  In
\* DailyTasks the effect on selectedChildFromProfile has run: with a child
\* chosen in the profile tab, that child is selected and its load is in
\* flight.
LoadsInit ==
    /\ PipelineIdle /\ ChildrenIdle /\ ConsumersIdle /\ AnalyticsIdle
    /\ treatmentPlan = <<>>
    /\ goalItems = [c \in GoalConsumers |-> <<>>]
    /\ goalTags = <<>>
    /\ icsContent = <<>>
    /\ uploadingVideoFor = <<>>
    /\ uploads = <<>>
    /\ shown = [c \in LoadConsumers |-> NothingShown]
    /\ \E tab \in LoadConsumers :
          /\ childrenQuery =
                [c \in LoadConsumers |->
                    IF c = tab THEN "pending" ELSE "idle"]
          /\ \/ /\ selectedChild = [c \in LoadConsumers |-> ""]
                /\ loads = [c \in LoadConsumers |-> [k \in LoadChildren |-> 0]]
                /\ loading = [c \in LoadConsumers |-> FALSE]
             \/ /\ tab = "DailyTasks"
                /\ \E p \in LoadChildren :
                      /\ selectedChild =
                            [c \in LoadConsumers |->
                                IF c = tab THEN LoadChildIds[p] ELSE ""]
                      /\ loads =
                            [c \in LoadConsumers |->
                                [k \in LoadChildren |->
                                    IF c = tab /\ k = p THEN 1 ELSE 0]]
                      /\ loading = [c \in LoadConsumers |-> c = tab]

SpecLoads == LoadsInit /\ [][LoadsNext]_vars

\* C28: when no load of a view is in flight and the last load for the
\* selected child ran to its end, what the view displays was loaded for
\* the selected child: the plan in DailyTasks; the sessions (with the
\* weekly summary and skill progress) and the insights in
\* ProgressDashboard.
C28_DisplayedDataIsTheSelectedChilds ==
    \A c \in LoadConsumers, k \in LoadChildren :
        (/\ selectedChild[c] = LoadChildIds[k]
         /\ loads[c][k] = LoadDone
         /\ ~LoadInFlight(c)) =>
            IF c = "DailyTasks"
            THEN shown[c].plan = LoadChildIds[k]
            ELSE /\ shown[c].sessions = LoadChildIds[k]
                 /\ shown[c].insights = LoadChildIds[k]

====
